---- MODULE Spec2Model ----
(***************************************************************************)
(* mediax: the staging cache of the media proxy.                           *)
(*                                                                         *)
(* NumProcs requesters (goroutines or processes sharing one cache          *)
(* directory) ask for the same original_path of one tenant; when the       *)
(* process of one dies, a later request takes its place.  Each runs        *)
(* Controller.ServeMedia -> Request.StageFile -> Storage.StageFile for     *)
(* every storage of the tenant in turn -> FS.StorageToDisk, and then       *)
(* streams the staged file (pass-through encoder).  The shared state is    *)
(* the cache directory: the staged file and its ".lock" file.  Every       *)
(* system call of Storage.StageFile is one step, so that requesters        *)
(* interleave exactly where the operating system lets them.                *)
(*                                                                         *)
(* Further parts of the server are modelled after the staging cache, each  *)
(* with a specification of its own that leaves the others at rest:         *)
(*   SpecConfig  the tenant tables, their RWMutex and the readiness gate   *)
(*   SpecPath    the filesystem paths a request resolves                   *)
(*   SpecEvict   one pass of EvictCache over a cache directory             *)
(*   SpecDerive  the processors that write derived files                   *)
(***************************************************************************)
EXTENDS Integers, Sequences, FiniteSets, TLC

\* ---------------------------------------------------------------- bounds
NumProcs == 2
NumStorages == 2
SrcLen == 2
MaxCrashes == 1

\* ---------------------------------------------------- program constants
\* const lockTimeout = 5 * time.Minute (the clock of the model counts minutes)
lockTimeout == 5
\* const lockPollCycles = 10
lockPollCycles == 10
\* const STAGING = "__STAGING__"
STAGING == "__STAGING__"
StatusOK == 200
StatusTemporaryRedirect == 307
StatusNotFound == 404

Procs == 1..NumProcs
StorageIDs == 1..NumStorages

Nil == <<"nil">>
\* A lock file: who created it and in which storage attempt, how long ago it was
\* last modified (time.Now() - ModTime(), in minutes: all the code reads of either),
\* and whether its creator died without removing it.
NoLock == [exists |-> FALSE, creator |-> 0, attempt |-> 0, age |-> 0, orphan |-> FALSE]
NoFile == [exists |-> FALSE, data |-> <<>>]
NoBody == <<"none">>
stagedPath == "stagedPath"

VARIABLES
    priority,        \* storage row -> its priority column
    Storages,        \* Origin.Storages, as InitializeConfig built it
    staged,          \* the file at stagedPath
    lock,            \* the file at stagedPath + ".lock"
    crashes,         \* history: number of requesters that died
    pc,              \* where each requester is
    i,               \* Request.StageFile: index of the storage being tried
    c,               \* Storage.StageFile: the loop counter of the lock loop
    off,             \* StorageToDisk: write offset of the requester's descriptor
    src,             \* StorageToDisk: the storage whose object is being copied
    StagedFilePath,  \* r.StagedFilePath
    lastError,       \* Request.StageFile: lastError
    status,          \* HTTP status of the response, 0 while there is none
    body,            \* response body streamed by ServeFile
    attempts,        \* history: the Storage.StageFile calls of the request: the storage, the
                     \* error returned, and how the call ended ("hit", "fetch" or "wait")
    sleeps,          \* history: time.Sleep calls of the current Storage.StageFile call
    acquired,        \* history: the running Request.StageFile created the lock file in some attempt
    lateArrival      \* history: the request arrived while a dead holder's lock was stale

stagingVars == <<priority, Storages, staged, lock, crashes, pc, i, c, off, src, StagedFilePath,
                 lastError, status, body, attempts, sleeps, acquired, lateArrival>>

\* ------------------------------------------- tenant tables and readiness
\* bounds
NumReqs == 2
MaxReloads == 1
MaxDbWrites == 1

\* The InitializeConfig goroutines: 0 is the call of App.WhenReady, the others
\* are started by Controller.Reload.
Inits == 0..MaxReloads
Reqs == 1..NumReqs
NoWriter == -1
\* What a table variable or a lookup result can hold besides a built table: the
\* nil map of a process that has built nothing, the outcome of a racing read,
\* and the result of a lookup that has not happened.
Unbuilt == [kind |-> "unbuilt"]
Torn == [kind |-> "torn"]
NoLookup == [kind |-> "nolookup"]
NotQueried == -1
\* No run of InitializeConfig has been asked for.
NotAsked == -1
\* The reader identity of the eviction goroutine (requests are 1..NumReqs).
EvictionLoop == 0

VARIABLES
    mu,                \* sync.RWMutex: the goroutine holding Lock, the goroutines holding RLock
    ready,             \* the channel ready is closed
    readyOnce,         \* readyOnce has run its function
    closes,            \* history: number of close(ready) calls executed
    db,                \* version of the rows in the database
    Origins,           \* the published tenant table
    VideoProfiles,     \* the published profile table
    initPc,            \* where each InitializeConfig goroutine is
    newOrigins,        \* InitializeConfig: newOrigins
    newVideoProfiles,  \* InitializeConfig: newVideoProfiles
    reqPc,             \* where each ServeMedia call is
    reqSeen,           \* what lookupOrigin and lookupVideoProfile returned to the call
    waited,            \* history: the call arrived before ready was closed
    evictPc,           \* where the eviction goroutine is
    projects,          \* runEviction: the snapshot taken under RLock
    reloadAsked        \* history: the version of the database rows when the run of
                       \* InitializeConfig was asked for

configVars == <<mu, ready, readyOnce, closes, db, Origins, VideoProfiles, initPc, newOrigins,
                newVideoProfiles, reqPc, reqSeen, waited, evictPc, projects, reloadAsked>>

\* The process at start: nothing built, the gate shut, App.WhenReady about to
\* call InitializeConfig, no Reload asked for.
ConfigInit ==
    /\ mu = [writer |-> NoWriter, readers |-> {}]
    /\ ready = FALSE
    /\ readyOnce = FALSE
    /\ closes = 0
    /\ db = 0
    /\ Origins = Unbuilt
    /\ VideoProfiles = Unbuilt
    /\ initPc = [g \in Inits |-> IF g = 0 THEN "lock" ELSE "idle"]
    /\ newOrigins = [g \in Inits |-> Unbuilt]
    /\ newVideoProfiles = [g \in Inits |-> Unbuilt]
    /\ reqPc = [r \in Reqs |-> "new"]
    /\ reqSeen = [r \in Reqs |-> [origin |-> NoLookup, profile |-> NoLookup]]
    /\ waited = [r \in Reqs |-> FALSE]
    /\ evictPc = "idle"
    /\ projects = NoLookup
    /\ reloadAsked = [g \in Inits |-> IF g = 0 THEN 0 ELSE NotAsked]

\* ------------------------------------------------------ resolved paths
\* bounds
MaxPathSegs == 3
MaxThumbSegs == 5

\* A string is a sequence of characters; a name that is never split is one
\* character of the model.
DotDot == <<".", ".">>
Sep == <<"/">>

VARIABLES
    reqPath,         \* r.OriginalFilePath: the URL path after TrimPrefix
    BasePath,        \* Storage.BasePath after Storage.Init
    CacheDir,        \* Project.CacheDir
    fsPath,          \* localfs.FileSystem.Path
    Thumbnail,       \* Options.Thumbnail
    Preview,         \* Options.Preview
    pathPc,          \* where the request is
    filePath,        \* Storage.StageFile: filePath, handed to FS.StorageToDisk
    opened           \* history: the paths handed to the operating system, each with its root

pathVars == <<reqPath, BasePath, CacheDir, fsPath, Thumbnail, Preview, pathPc, filePath, opened>>

\* No request whose paths are followed.
PathIdle ==
    /\ reqPath = <<>>
    /\ BasePath = <<>>
    /\ CacheDir = <<>>
    /\ fsPath = <<>>
    /\ Thumbnail = <<>>
    /\ Preview = <<>>
    /\ pathPc = "done"
    /\ filePath = <<>>
    /\ opened = {}

\* ------------------------------------------------------- cache eviction
\* bounds
NumFiles == 3
MaxSize == 2
MaxMtime == 2
MaxBudget == 3

CacheFiles == 1..NumFiles

VARIABLES
    cacheFiles,      \* the regular files under dir when the pass starts: name, size, mtime
    onDisk,          \* the files that exist
    maxBytes,        \* EvictCache: maxBytes
    entries,         \* EvictCache: entries
    total,           \* EvictCache: total
    next,            \* EvictCache: position of the range loop in entries
    removed,         \* EvictCache: removed
    freed,           \* EvictCache: freed
    deleted,         \* history: the files os.Remove deleted in this pass
    failed,          \* history: the files os.Remove failed on in this pass
    passPc           \* where the pass is

evictVars == <<cacheFiles, onDisk, maxBytes, entries, total, next, removed, freed, deleted, failed,
               passPc>>

\* No eviction pass.
EvictIdle ==
    /\ cacheFiles = <<>>
    /\ onDisk = {}
    /\ maxBytes = 0
    /\ entries = <<>>
    /\ total = 0
    /\ next = 0
    /\ removed = 0
    /\ freed = 0
    /\ deleted = {}
    /\ failed = {}
    /\ passPc = "done"

\* ------------------------------------------------------- derived files
\* bounds
NumWorkers == 2
OutLen == 2

Workers == 1..NumWorkers
NoDerived == [exists |-> FALSE, len |-> 0, done |-> FALSE, by |-> {}]

VARIABLES
    processor,          \* which processor the requests reach: convertImage, generatePreview, generateThumbnail
    opt,                \* input.Options of each invocation
    derivedFiles,       \* the file at each derived path: how much is written, and
                        \* whether the tool that wrote it has exited with success
    metadataFile,       \* the file at <staged path without extension>.metadata.json:
                        \* "absent", "empty" (created or truncated, nothing written) or "written"
    derivePc,           \* where each invocation is
    outOff,             \* the write offset of the invocation's tool in its output file
    ProcessedFilePath,  \* input.ProcessedFilePath
    sawAtCheck,         \* history: the file the invocation's existence check found
    outcome,            \* history: "hit", "ok" or "err" once the processor has returned
    producedAtEntry,    \* history: when the processor was invoked, the file at the derived path was
                        \* one that an invocation with these options had produced
    ranTool,            \* history: the invocation started the tool that writes the derived path
    ranIdentify,        \* history: the invocation ran identify for the metadata
    openedOutput,       \* history: the invocation's tool created or truncated the output file
    leftPartial         \* history: the processor returned an error with its tool's output in place

deriveVars == <<processor, opt, derivedFiles, metadataFile, derivePc, outOff, ProcessedFilePath,
                sawAtCheck, outcome, producedAtEntry, ranTool, ranIdentify, openedOutput, leftPartial>>

\* No processor running.
DeriveIdle ==
    /\ processor = ""
    /\ opt = <<>>
    /\ derivedFiles = <<>>
    /\ metadataFile = "absent"
    /\ derivePc = [w \in Workers |-> "done"]
    /\ outOff = [w \in Workers |-> 0]
    /\ ProcessedFilePath = [w \in Workers |-> <<>>]
    /\ sawAtCheck = [w \in Workers |-> NoDerived]
    /\ outcome = [w \in Workers |-> "none"]
    /\ producedAtEntry = [w \in Workers |-> FALSE]
    /\ ranTool = [w \in Workers |-> FALSE]
    /\ ranIdentify = [w \in Workers |-> FALSE]
    /\ openedOutput = [w \in Workers |-> FALSE]
    /\ leftPartial = [w \in Workers |-> FALSE]

\* ------------------------------------------------- video derivations
\* bounds
MaxSharedDuration == 8      \* the longest video for which two runs of one key are explored

\* program constants
chunkDuration == 4
maxPreviewDuration == 20
maxChunks == maxPreviewDuration \div chunkDuration
maxConcurrentChunks == 4

Durations == {2, 8, 20, 40}
NoTimestamp == -1

VARIABLES
    videoProcessor,     \* generatePreview or generateThumbnail
    ssSupplied,         \* the request has a non-empty ss parameter
    SS,                 \* input.Options.SS
    duration,           \* what ffprobe reports for the staged video, in seconds
    videoPc,            \* where each run of the processor is ("absent": no such run)
    tempDirOnDisk,      \* the directory <cache>/previews/temp_<cacheKey> exists
    chunkFile,          \* the file chunk_<i>.mp4 in tempDir: "none", "partial", "complete"
    concatFile,         \* tempDir/concat.txt exists
    jpegFile,           \* the file <cacheKey>_<thumbnail>_temp.jpg: "none", "partial", "complete"
    videoOut,           \* the file at previewPath / finalPath: "none", "partial", "whole", "corrupt"
    chunkRun,           \* each run's chunk goroutines: "idle", "running", "ok" (chunkPaths[i] set),
                        \* "err" (errors[i] set)
    inputsWhole,        \* the run's last tool found every input file complete when it opened them
    timestamp,          \* generateThumbnail: timestamp, in seconds
    videoOutcome,       \* history: "hit", "ok" or "err" once the run has returned
    lostFiles           \* history: a working file of the run was removed or truncated under it

videoVars == <<videoProcessor, ssSupplied, SS, duration, videoPc, tempDirOnDisk, chunkFile, concatFile,
               jpegFile, videoOut, chunkRun, inputsWhole, timestamp, videoOutcome, lostFiles>>

\* No video processor running.
VideoIdle ==
    /\ videoProcessor = ""
    /\ ssSupplied = FALSE
    /\ SS = 0
    /\ duration = 0
    /\ videoPc = [w \in Workers |-> "absent"]
    /\ tempDirOnDisk = FALSE
    /\ chunkFile = [chunkIndex \in 0..(maxChunks - 1) |-> "none"]
    /\ concatFile = FALSE
    /\ jpegFile = "none"
    /\ videoOut = "none"
    /\ chunkRun = [w \in Workers |-> [chunkIndex \in 0..(maxChunks - 1) |-> "idle"]]
    /\ inputsWhole = [w \in Workers |-> TRUE]
    /\ timestamp = [w \in Workers |-> NoTimestamp]
    /\ videoOutcome = [w \in Workers |-> "none"]
    /\ lostFiles = [w \in Workers |-> FALSE]

\* ------------------------------------------------------- size ladder
\* bounds
MaxIn == 4000

VARIABLES
    snapPc,             \* "parse" before ParseOptions has run, "done" after
    widthParam,         \* the width the request asks for
    heightParam,        \* the height the request asks for
    Width,              \* options.Width
    Height              \* options.Height

snapVars == <<snapPc, widthParam, heightParam, Width, Height>>

\* No option parsing under way.
SnapIdle ==
    /\ snapPc = "done"
    /\ widthParam = 0
    /\ heightParam = 0
    /\ Width = 0
    /\ Height = 0

\* ----------------------------------------------------------- ServeFile
\* bounds
MaxFileSize == 4            \* bytes in the served file
MaxUnix == 1                \* latest second of a modification time or If-Modified-Since
MaxPos == 5                 \* largest number written in a Range header

\* program constants
StatusPartialContent == 206
StatusNotModified == 304
ErrBadRequest == 400
ErrRequestedRangeNotSatisfiable == 416

Absent == [kind |-> "absent"]
NoRange == [form |-> "none", first |-> 0, last |-> 0]

VARIABLES
    fileBytes,          \* the bytes of the file ServeFile opens
    ModTime,            \* fi.ModTime(), in half seconds
    ifNoneMatch,        \* the If-None-Match header of the request
    ifModifiedSince,    \* the If-Modified-Since header of the request
    rangeHeader,        \* the Range header of the request
    respStatus,         \* status of the response, 0 before the first request
    respBody,           \* body of the response
    contentRange,       \* Content-Range of the response: <<start, end, size>>, <<>> without
    coverNext,          \* history: where the next range of the client reading the file in
                        \* successive ranges starts
    coverBody,          \* history: the bodies that client has received, concatenated
    coverCount          \* history: the number of ranges that client has requested

serveVars == <<fileBytes, ModTime, ifNoneMatch, ifModifiedSince, rangeHeader, respStatus, respBody,
               contentRange, coverNext, coverBody, coverCount>>

\* No ServeFile call made.
ServeIdle ==
    /\ fileBytes = <<>>
    /\ ModTime = 0
    /\ ifNoneMatch = Absent
    /\ ifModifiedSince = Absent
    /\ rangeHeader = NoRange
    /\ respStatus = 0
    /\ respBody = <<>>
    /\ contentRange = <<>>
    /\ coverNext = 0
    /\ coverBody = <<>>
    /\ coverCount = 0

\* ------------------------------------------------- one request through ServeMedia
\* program constants
StatusBadRequest == 400
StatusForbidden == 403
StatusUnsupportedMediaType == 415
StatusInternalServerError == 500

NoQuery == [width |-> Absent, height |-> Absent, q |-> Absent, size |-> Absent, format |-> "",
            profile |-> "", preview |-> "", thumbnail |-> "", detail |-> FALSE]
NoOptions == [error |-> "not parsed"]
NoReply == [status |-> 0, kind |-> "none", file |-> ""]

VARIABLES
    mediaPc,              \* where ServeMedia is: "lookup", "type", "options", "stage", "process",
                        \* "serve", "done"
    originFound,        \* lookupOrigin(url.Host): "none", "noStorages" or "ok"
    urlExtension,       \* GetURLExtension(req.Url.Path)
    jsonProcessor,      \* the Processor field of the encoder Json
    query,              \* the request's query parameters
    reqOptions,         \* what ParseOptions returned
    reqProcessedFilePath,\* req.ProcessedFilePath: "" or "derived"
    reqMetadata,        \* req.Metadata, as the set of its keys
    reply               \* what ServeMedia returned: the status it set (0: none set), the kind of
                        \* value returned and, for a served file, which file

requestVars == <<mediaPc, originFound, urlExtension, jsonProcessor, query, reqOptions,
                 reqProcessedFilePath, reqMetadata, reply>>

\* No request in the handler.
RequestIdle ==
    /\ mediaPc = "done"
    /\ originFound = "none"
    /\ urlExtension = ""
    /\ jsonProcessor = "nil"
    /\ query = NoQuery
    /\ reqOptions = NoOptions
    /\ reqProcessedFilePath = ""
    /\ reqMetadata = {}
    /\ reply = NoReply

\* ------------------------------------------------- ParseDSN
\* A map with no keys.
EmptyMap == [k \in {} |-> ""]

\* The fields of the config struct SFTP, whose dsn tag is
\* sftp://$Username:$Password@$Host:$Port/$BasePath.
FieldNames == {"DSN", "Scheme", "Username", "Password", "Host", "Port", "BasePath", "Debug", "Params"}

\* The struct before ParseDSN: every field at its zero value.
ZeroConfig ==
    [f \in FieldNames |->
        CASE f = "Port" -> [kind |-> "int", n |-> 0]
          [] f = "Debug" -> [kind |-> "bool", b |-> FALSE]
          [] f = "Params" -> [kind |-> "map", m |-> EmptyMap, isNil |-> TRUE]
          [] OTHER -> [kind |-> "string", s |-> ""]]

NoDsn == [matches |-> FALSE, scheme |-> "", groups |-> EmptyMap, params |-> EmptyMap,
          queryErr |-> FALSE]

VARIABLES
    dsnPc,              \* "call" before ParseDSN runs, "returned" after
    dsnString,          \* the DSN passed in: whether the struct's pattern matches it, its scheme
                        \* as written, what the pattern's groups capture, its query parameters
    dsnConfig,          \* the config struct
    dsnErr              \* the error ParseDSN returned, "" for nil

dsnVars == <<dsnPc, dsnString, dsnConfig, dsnErr>>

\* No ParseDSN call.
DsnIdle ==
    /\ dsnPc = "returned"
    /\ dsnString = NoDsn
    /\ dsnConfig = ZeroConfig
    /\ dsnErr = ""

\* ------------------------------------------------------- a request beside an eviction pass
\* The cache file at the request's staged path.
StagedFile == 1

VARIABLES
    handlerPc,          \* where the ServeMedia call is: "idle", "stage", "fetch", "open",
                        \* "stream", "ok" or "failed"
    fetchedHere         \* history: the call fetched the file itself (no cache hit)

handlerVars == <<handlerPc, fetchedHere>>

\* No request beside the pass.
HandlerIdle ==
    /\ handlerPc = "idle"
    /\ fetchedHere = FALSE

\* ------------------------------------------------------- the files of a cache directory
\* bounds
MaxArrivals == 3

NoArrival == [path |-> <<>>, o |-> [Detail |-> FALSE]]

VARIABLES
    cacheTree,          \* the regular files under the tenant's cache directory: the path, what
                        \* wrote the file ("staged", "derived", "metadata"), and for a staged
                        \* file the original_path it was fetched for
    arrival,            \* the request being served: original_path and options
    arrivalPc,          \* "idle", "stage", "process"
    arrivals,           \* how many requests have arrived
    arrivalStaged,         \* Request.StagedFilePath of the request being served
    cacheHits           \* history: the files Storage.StageFile returned as cache hits, each with
                        \* the original_path of the request it was returned to

cacheVars == <<cacheTree, arrival, arrivalPc, arrivals, arrivalStaged, cacheHits>>

\* No request on the cache directory.
CacheIdle ==
    /\ cacheTree = {}
    /\ arrival = NoArrival
    /\ arrivalPc = "idle"
    /\ arrivals = 0
    /\ arrivalStaged = <<>>
    /\ cacheHits = {}

\* What each part leaves alone.
restVars == <<configVars, pathVars, evictVars, deriveVars, videoVars, snapVars, serveVars, requestVars, dsnVars, handlerVars, cacheVars>>
notConfigVars == <<stagingVars, pathVars, evictVars, deriveVars, videoVars, snapVars, serveVars, requestVars, dsnVars, handlerVars, cacheVars>>
notPathVars == <<stagingVars, configVars, evictVars, deriveVars, videoVars, snapVars, serveVars, requestVars, dsnVars, handlerVars, cacheVars>>
notEvictVars == <<stagingVars, configVars, pathVars, deriveVars, videoVars, snapVars, serveVars, requestVars, dsnVars, handlerVars, cacheVars>>
notDeriveVars == <<stagingVars, configVars, pathVars, evictVars, videoVars, snapVars, serveVars, requestVars, dsnVars, handlerVars, cacheVars>>
notVideoVars == <<stagingVars, configVars, pathVars, evictVars, deriveVars, snapVars, serveVars, requestVars, dsnVars, handlerVars, cacheVars>>
notSnapVars == <<stagingVars, configVars, pathVars, evictVars, deriveVars, videoVars, serveVars, requestVars, dsnVars, handlerVars, cacheVars>>
notServeVars == <<stagingVars, configVars, pathVars, evictVars, deriveVars, videoVars, snapVars, requestVars, dsnVars, handlerVars, cacheVars>>
notRequestVars == <<stagingVars, configVars, pathVars, evictVars, deriveVars, videoVars, snapVars, serveVars, dsnVars, handlerVars, cacheVars>>
notDsnVars == <<stagingVars, configVars, pathVars, evictVars, deriveVars, videoVars, snapVars, serveVars, requestVars, handlerVars, cacheVars>>
notHandlerVars == <<stagingVars, configVars, pathVars, evictVars, deriveVars, videoVars, snapVars, serveVars, requestVars, dsnVars, cacheVars>>
notCacheVars == <<stagingVars, configVars, pathVars, evictVars, deriveVars, videoVars, snapVars, serveVars, requestVars, dsnVars, handlerVars>>
\* What a request and an eviction pass on the same directory leave alone.
besideVars == <<stagingVars, configVars, pathVars, deriveVars, videoVars, snapVars, serveVars, requestVars, dsnVars, cacheVars>>

vars == <<stagingVars, restVars>>

\* ------------------------------------------------------------- helpers

\* The source object as storage s holds it: SrcLen chunks, each tagged with s.
Content(s) == [k \in 1..SrcLen |-> s]

Perms(S) == {f \in [1..Cardinality(S) -> S] : \A a, b \in 1..Cardinality(S) : a # b => f[a] # f[b]}

\* db.Order("priority DESC"): what a wrong sort direction would publish.
OrderByPriorityDesc(prio) ==
    {f \in Perms(DOMAIN prio) : \A a, b \in 1..Len(f) : a < b => prio[f[a]] >= prio[f[b]]}

\* db.Order("priority ASC").Find(&storages), appended to origin.Storages in row order.
\* Rows of equal priority come in whatever order the database returns them; the
\* rows of the model have distinct priorities.
OrderByPriorityAsc(prio) ==
    {f \in Perms(DOMAIN prio) : \A a, b \in 1..Len(f) : a < b => prio[f[a]] <= prio[f[b]]}

\* gpath.IsFileExist(stagedPath)
IsFileExist(f) == f.exists

\* info.ModTime().Add(lockTimeout).Before(time.Now())
IsStale(l) == lockTimeout < l.age

\* A loop that never gives up.
PollBudgetNever(cnt) == FALSE

\* if c >= lockPollCycles { return STAGING, ... }
PollBudgetExhausted(cnt) == cnt >= lockPollCycles

\* A release that is skipped on the error return.
RemoveLockOnSuccess(l, err) == IF err = Nil THEN NoLock ELSE l

\* defer os.Remove(lockPath): runs on every return after the loop, whatever err is,
\* and removes whatever file is at lockPath.
DeferRemoveLock(l, err) == NoLock

\* os.OpenFile(dst, O_CREATE|O_WRONLY|O_TRUNC) / os.Create(dst)
Truncate(f) == [exists |-> TRUE, data |-> <<>>]

\* One write of io.Copy through a descriptor whose offset is o: the byte lands at
\* o+1; a file shorter than o is extended with zero bytes first.
WriteAt(f, o, b) ==
    LET n == IF Len(f.data) > o + 1 THEN Len(f.data) ELSE o + 1
    IN [exists |-> TRUE,
        data |-> [k \in 1..n |-> IF k = o + 1 THEN b
                                 ELSE IF k <= Len(f.data) THEN f.data[k] ELSE 0]]

Err(kind, s) == <<kind, s>>

\* ---------------------------------------------------------------- Init

Init ==
    /\ priority \in {f \in [StorageIDs -> StorageIDs] : \A a, b \in StorageIDs : a # b => f[a] # f[b]}
    /\ Storages \in OrderByPriorityAsc(priority)
    /\ staged = NoFile
    /\ lock = NoLock
    /\ crashes = 0
    /\ pc = [p \in Procs |-> "exists"]
    /\ i = [p \in Procs |-> 1]
    /\ c = [p \in Procs |-> 0]
    /\ off = [p \in Procs |-> 0]
    /\ src = [p \in Procs |-> 0]
    /\ StagedFilePath = [p \in Procs |-> ""]
    /\ lastError = [p \in Procs |-> Nil]
    /\ status = [p \in Procs |-> 0]
    /\ body = [p \in Procs |-> NoBody]
    /\ attempts = [p \in Procs |-> <<>>]
    /\ sleeps = [p \in Procs |-> 0]
    /\ acquired = [p \in Procs |-> FALSE]
    /\ lateArrival = [p \in Procs |-> FALSE]
    /\ ConfigInit
    /\ PathIdle
    /\ EvictIdle
    /\ DeriveIdle
    /\ VideoIdle
    /\ SnapIdle
    /\ ServeIdle
    /\ RequestIdle
    /\ DsnIdle
    /\ HandlerIdle
    /\ CacheIdle

\* -------------------------------------------------------------- actions

\* Storage.StageFile returns (path, err) to the loop of Request.StageFile, which
\* returns nil on the first success, tries the next storage on an error, and after
\* the last storage hands the last error to ServeMedia: a 307 when r.StagedFilePath
\* is STAGING, a 404 otherwise.
StageFileReturns(p, path, err, how) ==
    /\ attempts' = [attempts EXCEPT ![p] = Append(@, [storage |-> Storages[i[p]], err |-> err, how |-> how])]
    /\ StagedFilePath' = [StagedFilePath EXCEPT ![p] = path]
    /\ IF err = Nil
       THEN /\ pc' = [pc EXCEPT ![p] = "serve"]
            /\ acquired' = [acquired EXCEPT ![p] = FALSE]
            /\ UNCHANGED <<i, lastError, status>>
       ELSE /\ lastError' = [lastError EXCEPT ![p] = err]
            /\ IF i[p] < Len(Storages)
               THEN /\ i' = [i EXCEPT ![p] = @ + 1]
                    /\ pc' = [pc EXCEPT ![p] = "exists"]
                    /\ UNCHANGED <<status, acquired>>
               ELSE /\ pc' = [pc EXCEPT ![p] = "done"]
                    /\ status' = [status EXCEPT ![p] =
                                     IF path = STAGING THEN StatusTemporaryRedirect ELSE StatusNotFound]
                    /\ acquired' = [acquired EXCEPT ![p] = FALSE]
                    /\ UNCHANGED i

\* if gpath.IsFileExist(stagedPath) { return stagedPath, nil }; else MkdirAll and
\* enter the lock loop with c = 0.  The first check of a request is its arrival.
ExistsCheck(p) ==
    /\ pc[p] = "exists"
    /\ IF IsFileExist(staged)
       THEN /\ StageFileReturns(p, stagedPath, Nil, "hit")
            /\ UNCHANGED <<c, sleeps>>
       ELSE /\ pc' = [pc EXCEPT ![p] = "open"]
            /\ c' = [c EXCEPT ![p] = 0]
            /\ sleeps' = [sleeps EXCEPT ![p] = 0]
            /\ UNCHANGED <<i, StagedFilePath, lastError, status, attempts, acquired>>
    /\ lateArrival' = [lateArrival EXCEPT ![p] =
                          IF i[p] = 1 THEN lock.exists /\ lock.orphan /\ IsStale(lock) ELSE @]
    /\ UNCHANGED restVars
    /\ UNCHANGED <<priority, Storages, staged, lock, crashes, off, src, body>>

\* os.OpenFile(lockPath, O_CREATE|O_EXCL|O_WRONLY): succeeds iff no lock file exists.
OpenLock(p) ==
    /\ pc[p] = "open"
    /\ IF ~lock.exists
       THEN /\ lock' = [exists |-> TRUE, creator |-> p, attempt |-> i[p], age |-> 0, orphan |-> FALSE]
            /\ pc' = [pc EXCEPT ![p] = "fetch"]
            /\ acquired' = [acquired EXCEPT ![p] = TRUE]
       ELSE /\ pc' = [pc EXCEPT ![p] = "stat"]
            /\ UNCHANGED <<lock, acquired>>
    /\ UNCHANGED restVars
    /\ UNCHANGED <<priority, Storages, staged, crashes, i, c, off, src, StagedFilePath, lastError,
                   status, body, attempts, sleeps, lateArrival>>

\* os.Stat(lockPath) and what follows without another system call: a stale lock
\* leads to os.Remove; otherwise the budget check, then time.Sleep and c++.
StatLock(p) ==
    /\ pc[p] = "stat"
    /\ IF lock.exists /\ IsStale(lock)
       THEN /\ pc' = [pc EXCEPT ![p] = "remove"]
            /\ UNCHANGED <<i, c, sleeps, StagedFilePath, lastError, status, attempts, acquired>>
       ELSE IF PollBudgetExhausted(c[p])
            THEN /\ StageFileReturns(p, STAGING, Err("locked", Storages[i[p]]), "wait")
                 /\ UNCHANGED <<c, sleeps>>
            ELSE /\ pc' = [pc EXCEPT ![p] = "open"]
                 /\ c' = [c EXCEPT ![p] = @ + 1]
                 /\ sleeps' = [sleeps EXCEPT ![p] = @ + 1]
                 /\ UNCHANGED <<i, StagedFilePath, lastError, status, attempts, acquired>>
    /\ UNCHANGED restVars
    /\ UNCHANGED <<priority, Storages, staged, lock, crashes, off, src, body, lateArrival>>

\* os.Remove(lockPath); continue  (the loop's post statement c++ runs)
RemoveStale(p) ==
    /\ pc[p] = "remove"
    /\ lock' = NoLock
    /\ c' = [c EXCEPT ![p] = @ + 1]
    /\ pc' = [pc EXCEPT ![p] = "open"]
    /\ UNCHANGED restVars
    /\ UNCHANGED <<priority, Storages, staged, crashes, i, off, src, StagedFilePath, lastError,
                   status, body, attempts, sleeps, acquired, lateArrival>>

\* s.FS.StorageToDisk(filePath, stagedPath), first half: the source is opened and
\* the destination created or truncated.
FetchOpen(p) ==
    /\ pc[p] = "fetch"
    /\ staged' = Truncate(staged)
    /\ off' = [off EXCEPT ![p] = 0]
    /\ src' = [src EXCEPT ![p] = Storages[i[p]]]
    /\ pc' = [pc EXCEPT ![p] = "copy"]
    /\ UNCHANGED restVars
    /\ UNCHANGED <<priority, Storages, lock, crashes, i, c, StagedFilePath, lastError, status, body,
                   attempts, sleeps, acquired, lateArrival>>

\* StorageToDisk fails before it touches the destination (os.Open of the source,
\* GetObject, curl.Get): StageFile returns "", err and the deferred Remove runs.
FetchNotFound(p) ==
    /\ pc[p] = "fetch"
    /\ lock' = DeferRemoveLock(lock, Err("notfound", Storages[i[p]]))
    /\ StageFileReturns(p, "", Err("notfound", Storages[i[p]]), "fetch")
    /\ UNCHANGED restVars
    /\ UNCHANGED <<priority, Storages, staged, crashes, c, off, src, body, sleeps, lateArrival>>

\* io.Copy(dstFile, srcFile): one chunk.
FetchWrite(p) ==
    /\ pc[p] = "copy"
    /\ off[p] < SrcLen
    /\ staged' = WriteAt(staged, off[p], Content(src[p])[off[p] + 1])
    /\ off' = [off EXCEPT ![p] = @ + 1]
    /\ UNCHANGED restVars
    /\ UNCHANGED <<priority, Storages, lock, crashes, pc, i, c, src, StagedFilePath, lastError, status,
                   body, attempts, sleeps, acquired, lateArrival>>

\* io.Copy returns an error part way: StageFile returns "", err, the deferred
\* Remove runs, and whatever was written stays at stagedPath.
FetchFail(p) ==
    /\ pc[p] = "copy"
    /\ off[p] < SrcLen
    /\ lock' = DeferRemoveLock(lock, Err("io", src[p]))
    /\ StageFileReturns(p, "", Err("io", src[p]), "fetch")
    /\ UNCHANGED restVars
    /\ UNCHANGED <<priority, Storages, staged, crashes, c, off, src, body, sleeps, lateArrival>>

\* io.Copy reached the end of the source: StorageToDisk returns nil, StageFile
\* returns stagedPath, nil and the deferred Remove runs.
FetchDone(p) ==
    /\ pc[p] = "copy"
    /\ off[p] = SrcLen
    /\ lock' = DeferRemoveLock(lock, Nil)
    /\ StageFileReturns(p, stagedPath, Nil, "fetch")
    /\ UNCHANGED restVars
    /\ UNCHANGED <<priority, Storages, staged, crashes, c, off, src, body, sleeps, lateArrival>>

\* ServeMedia after a successful StageFile, pass-through encoder:
\* req.ServeFile(encoder.Mime, req.StagedFilePath) streams the file as it is now.
Serve(p) ==
    /\ pc[p] = "serve"
    /\ pc' = [pc EXCEPT ![p] = "done"]
    /\ IF staged.exists
       THEN /\ status' = [status EXCEPT ![p] = StatusOK]
            /\ body' = [body EXCEPT ![p] = staged.data]
       ELSE /\ status' = [status EXCEPT ![p] = StatusNotFound]
            /\ UNCHANGED body
    /\ UNCHANGED restVars
    /\ UNCHANGED <<priority, Storages, staged, lock, crashes, i, c, off, src, StagedFilePath, lastError,
                   attempts, sleeps, acquired, lateArrival>>

\* The process of a requester that got past the lock loop dies: nothing of it
\* runs any more, the deferred Remove included, and its files stay as they are.
\* A later request arrives in its place.
Crash(p) ==
    /\ pc[p] \in {"fetch", "copy"}
    /\ crashes < MaxCrashes
    /\ crashes' = crashes + 1
    /\ lock' = IF lock.exists /\ lock.creator = p THEN [lock EXCEPT !.orphan = TRUE] ELSE lock
    /\ pc' = [pc EXCEPT ![p] = "exists"]
    /\ i' = [i EXCEPT ![p] = 1]
    /\ c' = [c EXCEPT ![p] = 0]
    /\ off' = [off EXCEPT ![p] = 0]
    /\ src' = [src EXCEPT ![p] = 0]
    /\ StagedFilePath' = [StagedFilePath EXCEPT ![p] = ""]
    /\ lastError' = [lastError EXCEPT ![p] = Nil]
    /\ attempts' = [attempts EXCEPT ![p] = <<>>]
    /\ sleeps' = [sleeps EXCEPT ![p] = 0]
    /\ acquired' = [acquired EXCEPT ![p] = FALSE]
    /\ UNCHANGED restVars
    /\ UNCHANGED <<priority, Storages, staged, status, body, lateArrival>>

\* Time passes: more than lockTimeout minutes in one step, since the code tells
\* lock ages apart only by the timeout.  A transfer by a live holder ends before
\* its own lock is lockTimeout old (the deployment rule that the timeout exceeds
\* the longest transfer), so only a lock whose creator died grows stale.
Tick ==
    /\ lock.exists
    /\ lock.orphan
    /\ ~IsStale(lock)
    /\ lock' = [lock EXCEPT !.age = @ + lockTimeout + 1]
    /\ UNCHANGED restVars
    /\ UNCHANGED <<priority, Storages, staged, crashes, pc, i, c, off, src, StagedFilePath, lastError,
                   status, body, attempts, sleeps, acquired, lateArrival>>

Next ==
    \/ \E p \in Procs : ExistsCheck(p)
    \/ \E p \in Procs : OpenLock(p)
    \/ \E p \in Procs : StatLock(p)
    \/ \E p \in Procs : RemoveStale(p)
    \/ \E p \in Procs : FetchOpen(p)
    \/ \E p \in Procs : FetchNotFound(p)
    \/ \E p \in Procs : FetchWrite(p)
    \/ \E p \in Procs : FetchFail(p)
    \/ \E p \in Procs : FetchDone(p)
    \/ \E p \in Procs : Serve(p)
    \/ \E p \in Procs : Crash(p)
    \/ Tick

Spec == Init /\ [][Next]_vars

\* ------------------------------------------------------------ properties

Last(q) == q[Len(q)]
Complete(d) == \E s \in StorageIDs : d = Content(s)
\* StorageToDisk calls of the request that have returned.
FetchesOf(p) == {k \in 1..Len(attempts[p]) : attempts[p][k].how = "fetch"}
FailedFetchesOf(p) == {k \in FetchesOf(p) : attempts[p][k].err # Nil}
Copying == {p \in Procs : pc[p] = "copy"}
\* StorageToDisk calls begun so far (of the requests that did not die).
TotalFetches == Cardinality({pk \in Procs \X (1..NumStorages) : pk[2] \in FetchesOf(pk[1])})
                    + Cardinality(Copying)
\* Request.StageFile returned an error to ServeMedia.
StagingFailed(p) == pc[p] = "done" /\ status[p] # StatusOK

\* C1: at every moment at most one requester is executing the storage fetch
\* (StorageToDisk) that writes to the staged path.
C1_AtMostOneFetch == Cardinality(Copying) <= 1

\* C2: when the requests arrive concurrently and every storage fetch succeeds, one
\* storage fetch is performed in total: the other requesters hit the cache or get
\* the staging-in-progress signal without fetching.
C2_ExactlyOneFetch ==
    (crashes = 0 /\ \A p \in Procs : FailedFetchesOf(p) = {}) => TotalFetches <= 1

\* C3: a requester that gets a cache hit on the staged path is served the complete
\* source file, never a partially written one.
C3_NoHalfFile ==
    \A p \in Procs :
        (status[p] = StatusOK /\ Last(attempts[p]).how = "hit") => Complete(body[p])

\* C4: at every point, a staged file that exists and is non-empty equals the
\* source object of a storage byte for byte.
C4_StagedMatchesSource ==
    (staged.exists /\ staged.data # <<>>) => Complete(staged.data)

\* C5: from the moment a requester acquires the path's lock until its walk over the
\* storages ends (first successful fetch or last failed one) no other requester
\* acquires that path's lock.
C5_LockHeldAcrossChain == Cardinality({p \in Procs : acquired[p]}) <= 1

\* C6: a request that arrives when the lock file left by a dead holder is more than
\* lockTimeout old does not finish with that lock still in place: the lock is
\* deleted (and the path fetched again).
C6_StaleLockRecovered ==
    \A p \in Procs : (lateArrival[p] /\ pc[p] = "done") => ~(lock.exists /\ lock.orphan)

C8_LockDeletedOnReturn ==
    (lock.exists /\ ~lock.orphan) =>
        /\ pc[lock.creator] \in {"fetch", "copy"}
        /\ i[lock.creator] = lock.attempt

C8_Witness ==
    \E p \in Procs : /\ Len(attempts[p]) = 2
                     /\ attempts[p][1].how = "fetch" /\ attempts[p][1].err # Nil
                     /\ attempts[p][2].how = "fetch" /\ attempts[p][2].err = Nil
                     /\ ~lock.exists

\* C9: Origin.Storages is in ascending priority order; Request.StageFile calls the
\* storages in that order, goes on to the next one only after an error, returns at
\* the first success with the staged path, and when every storage failed returns
\* the error of the last one.
C9_PriorityOrderFirstSuccess ==
    /\ \A a, b \in 1..Len(Storages) : a < b => priority[Storages[a]] <= priority[Storages[b]]
    /\ \A p \in Procs :
          LET A == attempts[p] IN
          /\ Len(A) <= Len(Storages)
          /\ \A k \in 1..Len(A) : A[k].storage = Storages[k]
          /\ \A k \in 1..(Len(A) - 1) : A[k].err # Nil
          /\ pc[p] = "serve" => (Last(A).err = Nil /\ StagedFilePath[p] = stagedPath)
          /\ pc[p] \in {"exists", "open", "stat", "remove", "fetch", "copy"} =>
                (i[p] = Len(A) + 1 /\ (Len(A) > 0 => Last(A).err # Nil))
          /\ StagingFailed(p) =>
                /\ Len(A) = Len(Storages)
                /\ \A k \in 1..Len(A) : A[k].err # Nil
                /\ lastError[p] = Last(A).err

C9_Witness ==
    /\ \E p \in Procs : StagingFailed(p) /\ lastError[p] = Err("notfound", Storages[NumStorages])
    /\ \E p \in Procs : /\ pc[p] = "done" /\ status[p] = StatusOK /\ Len(attempts[p]) = 2
                        /\ attempts[p][1].err # Nil /\ attempts[p][2].how = "fetch"

\* C10: a failed staging is answered with the 307 self-redirect if and only if at
\* least one storage attempt reported staging-in-progress, and with 404 otherwise.
C10_RedirectIffAnyStaging ==
    \A p \in Procs :
        StagingFailed(p) =>
            /\ status[p] \in {StatusTemporaryRedirect, StatusNotFound}
            /\ status[p] = StatusTemporaryRedirect
                  <=> \E k \in 1..Len(attempts[p]) : attempts[p][k].how = "wait"

\* ======================================================================
\* The tenant tables, their lock and the readiness gate
\* (apps/mediax/functions.go, Controller.ServeMedia, Controller.Reload,
\* App.WhenReady, runEviction).
\* ======================================================================

\* The staging cache at rest.
StagingIdle ==
    /\ priority = [s \in StorageIDs |-> s]
    /\ Storages = [k \in StorageIDs |-> k]
    /\ staged = NoFile
    /\ lock = NoLock
    /\ crashes = 0
    /\ pc = [p \in Procs |-> "done"]
    /\ i = [p \in Procs |-> 1]
    /\ c = [p \in Procs |-> 0]
    /\ off = [p \in Procs |-> 0]
    /\ src = [p \in Procs |-> 0]
    /\ StagedFilePath = [p \in Procs |-> ""]
    /\ lastError = [p \in Procs |-> Nil]
    /\ status = [p \in Procs |-> 0]
    /\ body = [p \in Procs |-> NoBody]
    /\ attempts = [p \in Procs |-> <<>>]
    /\ sleeps = [p \in Procs |-> 0]
    /\ acquired = [p \in Procs |-> FALSE]
    /\ lateArrival = [p \in Procs |-> FALSE]

\* A gate that lets every request through.
GateAlways(rdy) == TRUE

\* <-ready: the receive returns once the channel is closed, and at once ever after.
GateOpen(rdy) == rdy

\* A Once that runs its function on every call.
OnceAlways(done) == TRUE

\* readyOnce.Do(f): f runs only if no earlier Do has run it.
OnceDo(done) == ~done

\* A read lock that does not wait for the writer.
RLockFree(m) == TRUE

\* mu.RLock() returns only while no goroutine holds mu.Lock().
CanRLock(m) == m.writer = NoWriter

\* A read lock that is kept after the function returns.
RUnlockNever(m, reader) == m

\* mu.RUnlock()
RUnlock(m, reader) == [m EXCEPT !.readers = @ \ {reader}]

\* A write lock that does not wait.
LockFree(m) == TRUE

\* mu.Lock() returns only while no goroutine holds the lock in either mode.
CanLock(m) == m.writer = NoWriter /\ m.readers = {}

\* A read of a table variable.  A read that is not ordered with a writer's
\* critical section is a data race: it may see the maps in any state.
ReadTable(t, m) == IF m.writer # NoWriter THEN Torn ELSE t

\* A run that fills the objects the startup run allocated.
StartupObjects(g) == 0

\* var origins []media.Origin, var storages []media.Storage and
\* make(map[string]*media.Origin, ...) allocate anew in every run, and
\* origin := origins[idx] copies the row before its address is stored: the
\* objects a run fills and publishes are its own.
OwnObjects(g) == g

\* Controller.Reload: go InitializeConfig()
Reload(g) ==
    /\ g # 0
    /\ initPc[g] = "idle"
    /\ initPc' = [initPc EXCEPT ![g] = "lock"]
    /\ reloadAsked' = [reloadAsked EXCEPT ![g] = db]
    /\ UNCHANGED <<mu, ready, readyOnce, closes, db, Origins, VideoProfiles, newOrigins,
                   newVideoProfiles, reqPc, reqSeen, waited, evictPc, projects>>
    /\ UNCHANGED notConfigVars

\* mu.Lock(); the two defers are registered
InitLock(g) ==
    /\ initPc[g] = "lock"
    /\ CanLock(mu)
    /\ mu' = [mu EXCEPT !.writer = g]
    /\ initPc' = [initPc EXCEPT ![g] = "origins"]
    /\ UNCHANGED <<ready, readyOnce, closes, db, Origins, VideoProfiles, newOrigins,
                   newVideoProfiles, reqPc, reqSeen, waited, evictPc, projects, reloadAsked>>
    /\ UNCHANGED notConfigVars

\* db.Preload("Project").Where("deleted_at IS NULL").Find(&origins)
QueryOrigins(g) ==
    /\ initPc[g] = "origins"
    /\ newOrigins' = [newOrigins EXCEPT ![OwnObjects(g)] = [kind |-> "origins", origins |-> db, storages |-> NotQueried]]
    /\ initPc' = [initPc EXCEPT ![g] = "storages"]
    /\ UNCHANGED <<mu, ready, readyOnce, closes, db, Origins, VideoProfiles,
                   newVideoProfiles, reqPc, reqSeen, waited, evictPc, projects, reloadAsked>>
    /\ UNCHANGED notConfigVars

\* db.Order("priority ASC").Find(&storages) and the loop that fills newOrigins
QueryStorages(g) ==
    /\ initPc[g] = "storages"
    /\ newOrigins' = [newOrigins EXCEPT ![OwnObjects(g)] = [@ EXCEPT !.storages = db]]
    /\ initPc' = [initPc EXCEPT ![g] = "profiles"]
    /\ UNCHANGED <<mu, ready, readyOnce, closes, db, Origins, VideoProfiles,
                   newVideoProfiles, reqPc, reqSeen, waited, evictPc, projects, reloadAsked>>
    /\ UNCHANGED notConfigVars

\* db.Find(&videoProfiles) and the loop that fills newVideoProfiles
QueryProfiles(g) ==
    /\ initPc[g] = "profiles"
    /\ newVideoProfiles' = [newVideoProfiles EXCEPT ![g] = [kind |-> "profiles", profiles |-> db]]
    /\ initPc' = [initPc EXCEPT ![g] = "swapOrigins"]
    /\ UNCHANGED <<mu, ready, readyOnce, closes, db, Origins, VideoProfiles,
                   newOrigins, reqPc, reqSeen, waited, evictPc, projects, reloadAsked>>
    /\ UNCHANGED notConfigVars

\* Origins = newOrigins
SwapOrigins(g) ==
    /\ initPc[g] = "swapOrigins"
    /\ Origins' = newOrigins[OwnObjects(g)]
    /\ initPc' = [initPc EXCEPT ![g] = "swapProfiles"]
    /\ UNCHANGED <<mu, ready, readyOnce, closes, db, VideoProfiles, newOrigins,
                   newVideoProfiles, reqPc, reqSeen, waited, evictPc, projects, reloadAsked>>
    /\ UNCHANGED notConfigVars

\* VideoProfiles = newVideoProfiles
SwapVideoProfiles(g) ==
    /\ initPc[g] = "swapProfiles"
    /\ VideoProfiles' = newVideoProfiles[g]
    /\ initPc' = [initPc EXCEPT ![g] = "once"]
    /\ UNCHANGED <<mu, ready, readyOnce, closes, db, Origins, newOrigins,
                   newVideoProfiles, reqPc, reqSeen, waited, evictPc, projects, reloadAsked>>
    /\ UNCHANGED notConfigVars

\* The function returns; the defer registered last runs first:
\* readyOnce.Do(func() { close(ready) })
InitOnce(g) ==
    /\ initPc[g] = "once"
    /\ IF OnceDo(readyOnce)
       THEN /\ ready' = TRUE
            /\ closes' = closes + 1
       ELSE UNCHANGED <<ready, closes>>
    /\ readyOnce' = TRUE
    /\ initPc' = [initPc EXCEPT ![g] = "unlock"]
    /\ UNCHANGED <<mu, db, Origins, VideoProfiles, newOrigins,
                   newVideoProfiles, reqPc, reqSeen, waited, evictPc, projects, reloadAsked>>
    /\ UNCHANGED notConfigVars

\* then the defer registered first: mu.Unlock()
InitUnlock(g) ==
    /\ initPc[g] = "unlock"
    /\ mu' = [mu EXCEPT !.writer = NoWriter]
    /\ initPc' = [initPc EXCEPT ![g] = "done"]
    /\ UNCHANGED <<ready, readyOnce, closes, db, Origins, VideoProfiles, newOrigins,
                   newVideoProfiles, reqPc, reqSeen, waited, evictPc, projects, reloadAsked>>
    /\ UNCHANGED notConfigVars

\* A row is created, changed or deleted through the /admin API.
DbWrite ==
    /\ db < MaxDbWrites
    /\ db' = db + 1
    /\ UNCHANGED <<mu, ready, readyOnce, closes, Origins, VideoProfiles, initPc, newOrigins,
                   newVideoProfiles, reqPc, reqSeen, waited, evictPc, projects, reloadAsked>>
    /\ UNCHANGED notConfigVars

\* A transform request reaches Controller.ServeMedia (any path but /health and /admin).
Arrive(r) ==
    /\ reqPc[r] = "new"
    /\ reqPc' = [reqPc EXCEPT ![r] = "gate"]
    /\ waited' = [waited EXCEPT ![r] = ~ready]
    /\ UNCHANGED <<mu, ready, readyOnce, closes, db, Origins, VideoProfiles, initPc, newOrigins,
                   newVideoProfiles, reqSeen, evictPc, projects, reloadAsked>>
    /\ UNCHANGED notConfigVars

\* <-ready
GateReceive(r) ==
    /\ reqPc[r] = "gate"
    /\ GateOpen(ready)
    /\ reqPc' = [reqPc EXCEPT ![r] = "lookupOrigin"]
    /\ UNCHANGED <<mu, ready, readyOnce, closes, db, Origins, VideoProfiles, initPc, newOrigins,
                   newVideoProfiles, reqSeen, waited, evictPc, projects, reloadAsked>>
    /\ UNCHANGED notConfigVars

\* lookupOrigin: mu.RLock()
LookupOriginRLock(r) ==
    /\ reqPc[r] = "lookupOrigin"
    /\ CanRLock(mu)
    /\ mu' = [mu EXCEPT !.readers = @ \cup {r}]
    /\ reqPc' = [reqPc EXCEPT ![r] = "readOrigin"]
    /\ UNCHANGED <<ready, readyOnce, closes, db, Origins, VideoProfiles, initPc, newOrigins,
                   newVideoProfiles, reqSeen, waited, evictPc, projects, reloadAsked>>
    /\ UNCHANGED notConfigVars

\* lookupOrigin: v, ok := Origins[host]
LookupOriginRead(r) ==
    /\ reqPc[r] = "readOrigin"
    /\ reqSeen' = [reqSeen EXCEPT ![r].origin = ReadTable(Origins, mu)]
    /\ reqPc' = [reqPc EXCEPT ![r] = "unlockOrigin"]
    /\ UNCHANGED <<mu, ready, readyOnce, closes, db, Origins, VideoProfiles, initPc, newOrigins,
                   newVideoProfiles, waited, evictPc, projects, reloadAsked>>
    /\ UNCHANGED notConfigVars

\* lookupOrigin: the deferred mu.RUnlock().  ServeMedia goes on to ParseOptions;
\* with options.Profile set it calls lookupVideoProfile, otherwise the tables are
\* not read again.
LookupOriginRUnlock(r) ==
    /\ reqPc[r] = "unlockOrigin"
    /\ mu' = RUnlock(mu, r)
    /\ \E profileSet \in BOOLEAN :
          reqPc' = [reqPc EXCEPT ![r] = IF profileSet THEN "lookupProfile" ELSE "done"]
    /\ UNCHANGED <<ready, readyOnce, closes, db, Origins, VideoProfiles, initPc, newOrigins,
                   newVideoProfiles, reqSeen, waited, evictPc, projects, reloadAsked>>
    /\ UNCHANGED notConfigVars

\* lookupVideoProfile: mu.RLock()
LookupProfileRLock(r) ==
    /\ reqPc[r] = "lookupProfile"
    /\ CanRLock(mu)
    /\ mu' = [mu EXCEPT !.readers = @ \cup {r}]
    /\ reqPc' = [reqPc EXCEPT ![r] = "readProfile"]
    /\ UNCHANGED <<ready, readyOnce, closes, db, Origins, VideoProfiles, initPc, newOrigins,
                   newVideoProfiles, reqSeen, waited, evictPc, projects, reloadAsked>>
    /\ UNCHANGED notConfigVars

\* lookupVideoProfile: v, ok := VideoProfiles[profile]
LookupProfileRead(r) ==
    /\ reqPc[r] = "readProfile"
    /\ reqSeen' = [reqSeen EXCEPT ![r].profile = ReadTable(VideoProfiles, mu)]
    /\ reqPc' = [reqPc EXCEPT ![r] = "unlockProfile"]
    /\ UNCHANGED <<mu, ready, readyOnce, closes, db, Origins, VideoProfiles, initPc, newOrigins,
                   newVideoProfiles, waited, evictPc, projects, reloadAsked>>
    /\ UNCHANGED notConfigVars

\* lookupVideoProfile: the deferred mu.RUnlock()
LookupProfileRUnlock(r) ==
    /\ reqPc[r] = "unlockProfile"
    /\ mu' = RUnlock(mu, r)
    /\ reqPc' = [reqPc EXCEPT ![r] = "done"]
    /\ UNCHANGED <<ready, readyOnce, closes, db, Origins, VideoProfiles, initPc, newOrigins,
                   newVideoProfiles, reqSeen, waited, evictPc, projects, reloadAsked>>
    /\ UNCHANGED notConfigVars

\* The request is answered; a later request takes its place.
NextRequest(r) ==
    /\ reqPc[r] = "done"
    /\ reqPc' = [reqPc EXCEPT ![r] = "new"]
    /\ reqSeen' = [reqSeen EXCEPT ![r] = [origin |-> NoLookup, profile |-> NoLookup]]
    /\ waited' = [waited EXCEPT ![r] = FALSE]
    /\ UNCHANGED <<mu, ready, readyOnce, closes, db, Origins, VideoProfiles, initPc, newOrigins,
                   newVideoProfiles, evictPc, projects, reloadAsked>>
    /\ UNCHANGED notConfigVars

\* App.WhenReady: InitializeConfig() has returned; startEvictionLoop() starts the
\* goroutine, which calls runEviction at once.
StartEvictionLoop ==
    /\ initPc[0] = "done"
    /\ evictPc = "idle"
    /\ evictPc' = "rlock"
    /\ UNCHANGED <<mu, ready, readyOnce, closes, db, Origins, VideoProfiles, initPc, newOrigins,
                   newVideoProfiles, reqPc, reqSeen, waited, projects, reloadAsked>>
    /\ UNCHANGED notConfigVars

\* runEviction: mu.RLock()
EvictRLock ==
    /\ evictPc = "rlock"
    /\ CanRLock(mu)
    /\ mu' = [mu EXCEPT !.readers = @ \cup {EvictionLoop}]
    /\ evictPc' = "snapshot"
    /\ UNCHANGED <<ready, readyOnce, closes, db, Origins, VideoProfiles, initPc, newOrigins,
                   newVideoProfiles, reqPc, reqSeen, waited, projects, reloadAsked>>
    /\ UNCHANGED notConfigVars

\* runEviction: for _, o := range Origins { ... projects = append(projects, ...) }
EvictSnapshot ==
    /\ evictPc = "snapshot"
    /\ projects' = ReadTable(Origins, mu)
    /\ evictPc' = "runlock"
    /\ UNCHANGED <<mu, ready, readyOnce, closes, db, Origins, VideoProfiles, initPc, newOrigins,
                   newVideoProfiles, reqPc, reqSeen, waited, reloadAsked>>
    /\ UNCHANGED notConfigVars

\* runEviction: mu.RUnlock()
EvictRUnlock ==
    /\ evictPc = "runlock"
    /\ mu' = RUnlock(mu, EvictionLoop)
    /\ evictPc' = "evict"
    /\ UNCHANGED <<ready, readyOnce, closes, db, Origins, VideoProfiles, initPc, newOrigins,
                   newVideoProfiles, reqPc, reqSeen, waited, projects, reloadAsked>>
    /\ UNCHANGED notConfigVars

\* runEviction: DirSize and EvictCache for every project of the snapshot, then
\* the goroutine waits for the ticker.
EvictProjects ==
    /\ evictPc = "evict"
    /\ evictPc' = "ticker"
    /\ UNCHANGED <<mu, ready, readyOnce, closes, db, Origins, VideoProfiles, initPc, newOrigins,
                   newVideoProfiles, reqPc, reqSeen, waited, projects, reloadAsked>>
    /\ UNCHANGED notConfigVars

\* for range ticker.C { runEviction() }
TickerFires ==
    /\ evictPc = "ticker"
    /\ evictPc' = "rlock"
    /\ UNCHANGED <<mu, ready, readyOnce, closes, db, Origins, VideoProfiles, initPc, newOrigins,
                   newVideoProfiles, reqPc, reqSeen, waited, projects, reloadAsked>>
    /\ UNCHANGED notConfigVars

SpecConfigInit ==
    /\ ConfigInit
    /\ StagingIdle
    /\ PathIdle
    /\ EvictIdle
    /\ DeriveIdle
    /\ VideoIdle
    /\ SnapIdle
    /\ ServeIdle
    /\ RequestIdle
    /\ DsnIdle
    /\ HandlerIdle
    /\ CacheIdle

NextConfig ==
    \/ \E g \in Inits : Reload(g)
    \/ \E g \in Inits : InitLock(g)
    \/ \E g \in Inits : QueryOrigins(g)
    \/ \E g \in Inits : QueryStorages(g)
    \/ \E g \in Inits : QueryProfiles(g)
    \/ \E g \in Inits : SwapOrigins(g)
    \/ \E g \in Inits : SwapVideoProfiles(g)
    \/ \E g \in Inits : InitOnce(g)
    \/ \E g \in Inits : InitUnlock(g)
    \/ DbWrite
    \/ \E r \in Reqs : Arrive(r)
    \/ \E r \in Reqs : GateReceive(r)
    \/ \E r \in Reqs : LookupOriginRLock(r)
    \/ \E r \in Reqs : LookupOriginRead(r)
    \/ \E r \in Reqs : LookupOriginRUnlock(r)
    \/ \E r \in Reqs : LookupProfileRLock(r)
    \/ \E r \in Reqs : LookupProfileRead(r)
    \/ \E r \in Reqs : LookupProfileRUnlock(r)
    \/ \E r \in Reqs : NextRequest(r)
    \/ StartEvictionLoop
    \/ EvictRLock
    \/ EvictSnapshot
    \/ EvictRUnlock
    \/ EvictProjects
    \/ TickerFires

SpecConfig == SpecConfigInit /\ [][NextConfig]_vars

\* A table as InitializeConfig publishes it: every query of the build has run.
CompleteOrigins(t) == t.kind = "origins" /\ t.storages # NotQueried
CompleteProfiles(t) == t.kind = "profiles"
\* The request is past <-ready.
PastGate(r) == reqPc[r] \notin {"new", "gate"}
\* The request is inside lookupOrigin or lookupVideoProfile, holding the read lock.
InLookup(r) == reqPc[r] \in {"readOrigin", "unlockOrigin", "readProfile", "unlockProfile"}

\* C11: no transform request looks a tenant up before the first InitializeConfig
\* has completed: a request past <-ready finds ready closed and both tables
\* published, it holds the read lock only after some InitializeConfig has
\* returned, and what its lookups return is never the table from before the
\* first build.
C11_NoLookupBeforeFirstInit ==
    \A r \in Reqs :
        /\ PastGate(r) => (ready /\ Origins # Unbuilt /\ VideoProfiles # Unbuilt)
        /\ InLookup(r) => \E g \in Inits : initPc[g] = "done"
        /\ reqSeen[r].origin # Unbuilt
        /\ reqSeen[r].profile # Unbuilt

\* A request that arrived before ready was closed has been let through and has
\* looked its tenant up.
C11_Witness ==
    \E r \in Reqs : waited[r] /\ reqSeen[r].origin # NoLookup

\* C12: ready is closed exactly once, after the first table build, however many
\* InitializeConfig calls run: close(ready) never runs twice, it has run as soon as
\* one InitializeConfig is past its deferred Once, ready is closed only with both
\* tables published, and a request waiting at a closed gate can always go on.
C12_ReadyClosedOnce ==
    /\ closes <= 1
    /\ ready <=> closes = 1
    /\ ready => (Origins # Unbuilt /\ VideoProfiles # Unbuilt)
    /\ (\E g \in Inits : initPc[g] \in {"unlock", "done"}) => ready
    /\ \A r \in Reqs : (ready /\ reqPc[r] = "gate") => ENABLED GateReceive(r)

\* Startup and a reload have both run their deferred Once, and a request arrived
\* after the gate was opened.
C12_Witness ==
    /\ \A g \in Inits : initPc[g] = "done"
    /\ closes = 1
    /\ \E r \in Reqs : reqPc[r] = "gate" /\ ~waited[r]

\* C13: every read of a table that is concurrent with a reload sees a complete
\* table: no goroutine is inside a lookup or the eviction snapshot while an
\* InitializeConfig holds the write lock, and what lookupOrigin,
\* lookupVideoProfile and the snapshot of runEviction read is a table with every
\* query of its build done.
C13_ReadersSeeCompleteTables ==
    /\ mu.readers # {} => mu.writer = NoWriter
    /\ \A r \in Reqs :
          /\ reqSeen[r].origin # NoLookup => CompleteOrigins(reqSeen[r].origin)
          /\ reqSeen[r].profile # NoLookup => CompleteProfiles(reqSeen[r].profile)
    /\ projects # NoLookup => CompleteOrigins(projects)

\* A reload is inside its critical section, past its first query, while a request
\* that has looked its tenant up waits for the read lock of lookupVideoProfile
\* and the eviction goroutine has taken a snapshot.
C13_Witness ==
    /\ \E g \in Inits : g # 0 /\ initPc[g] \in {"storages", "profiles", "swapOrigins", "swapProfiles"}
    /\ \E r \in Reqs : reqPc[r] = "lookupProfile" /\ reqSeen[r].origin # NoLookup
    /\ projects # NoLookup

\* ======================================================================
\* The filesystem paths of a request (Storage.StageFile, localfs.resolve,
\* generatePreview, generateThumbnail).
\* ======================================================================

\* strings.HasPrefix
HasPrefix(s, prefix) == Len(prefix) <= Len(s) /\ SubSeq(s, 1, Len(prefix)) = prefix

\* strings.Split(s, "/")
RECURSIVE Split(_)
Split(s) ==
    IF s = <<>> THEN << <<>> >>
    ELSE LET rest == Split(Tail(s))
         IN IF Head(s) = "/" THEN << <<>> >> \o rest
            ELSE << <<Head(s)>> \o Head(rest) >> \o Tail(rest)

\* strings.Join(segs, "/")
RECURSIVE Unsplit(_)
Unsplit(segs) ==
    IF segs = <<>> THEN <<>>
    ELSE IF Len(segs) = 1 THEN Head(segs)
    ELSE Head(segs) \o Sep \o Unsplit(Tail(segs))

\* The loop of filepath.Clean over the elements of the path: empty elements and
\* "." are dropped, ".." removes the element before it, is dropped at the root of
\* a rooted path and is kept at the front of a relative one.
RECURSIVE CleanFrom(_, _, _)
CleanFrom(segs, out, rooted) ==
    IF segs = <<>> THEN out
    ELSE LET sg == Head(segs)
         IN IF sg = <<>> \/ sg = <<".">> THEN CleanFrom(Tail(segs), out, rooted)
            ELSE IF sg = DotDot
                 THEN IF out # <<>> /\ Last(out) # DotDot
                      THEN CleanFrom(Tail(segs), SubSeq(out, 1, Len(out) - 1), rooted)
                      ELSE IF rooted THEN CleanFrom(Tail(segs), out, rooted)
                           ELSE CleanFrom(Tail(segs), Append(out, sg), rooted)
                 ELSE CleanFrom(Tail(segs), Append(out, sg), rooted)

\* filepath.Clean
Clean(s) ==
    IF s = <<>> THEN <<".">>
    ELSE LET rooted == Head(s) = "/"
             inner == Unsplit(CleanFrom(Split(s), <<>>, rooted))
         IN IF rooted THEN Sep \o inner
            ELSE IF inner = <<>> THEN <<".">> ELSE inner

\* filepath.Join(a, b): empty elements are ignored, the rest joined and cleaned.
Join(a, b) ==
    IF a = <<>> /\ b = <<>> THEN <<>>
    ELSE IF a = <<>> THEN Clean(b)
    ELSE IF b = <<>> THEN Clean(a)
    ELSE Clean(a \o Sep \o b)

\* strings.HasPrefix(filepath.Clean(path), filepath.Clean(root)+string(filepath.Separator))
UnderRoot(path, root) == HasPrefix(Clean(path), Clean(root) \o Sep)

\* localfs.FileSystem.resolve
resolve(root, p) ==
    LET cleaned == Clean(Join(root, p))
    IN IF ~HasPrefix(cleaned, root) THEN root ELSE cleaned

\* The strings of at most n elements over the element names in segs.
RECURSIVE PathsOver(_, _)
PathsOver(segs, n) ==
    IF n = 0 THEN {}
    ELSE segs \cup PathsOver(segs, n - 1)
              \cup {a \o Sep \o b : a \in segs, b \in PathsOver(segs, n - 1)}

\* A request: its path, the storage and project rows it meets, its options.
SpecPathInit ==
    /\ reqPath \in PathsOver({DotDot, <<"a">>, <<"c">>}, MaxPathSegs)
    /\ BasePath \in {<<>>, <<"m">>}
    /\ CacheDir \in {<<"c">>, <<"/", "c">>}
    /\ fsPath = <<"/", "d">>
    /\ Thumbnail \in {<<>>} \cup PathsOver({DotDot, <<"a">>}, MaxThumbSegs)
    /\ Preview \in {<<>>, <<"q">>}
    /\ pathPc = "stage"
    /\ filePath = <<>>
    /\ opened = {}
    /\ StagingIdle
    /\ ConfigInit
    /\ EvictIdle
    /\ DeriveIdle
    /\ VideoIdle
    /\ SnapIdle
    /\ ServeIdle
    /\ RequestIdle
    /\ DsnIdle
    /\ HandlerIdle
    /\ CacheIdle

\* Storage.StageFile up to the lock: the two joins, the two traversal checks, the
\* existence check, MkdirAll and the lock file.
PathStageFile ==
    /\ pathPc = "stage"
    /\ LET file == Join(BasePath, reqPath)
           stagedAt == Join(CacheDir, reqPath)
       IN IF (BasePath # <<>> /\ ~UnderRoot(file, BasePath)) \/ ~UnderRoot(stagedAt, CacheDir)
          THEN /\ pathPc' = "rejected"
               /\ UNCHANGED <<filePath, opened>>
          ELSE /\ filePath' = file
               /\ \E hit \in BOOLEAN :
                     IF hit
                     THEN /\ pathPc' = "process"
                          /\ opened' = opened \cup {[kind |-> "staged", root |-> CacheDir, path |-> stagedAt]}
                     ELSE /\ pathPc' = "copy"
                          /\ opened' = opened \cup
                                {[kind |-> "staged", root |-> CacheDir, path |-> stagedAt],
                                 [kind |-> "lock", root |-> CacheDir, path |-> stagedAt \o <<".lock">>]}
    /\ UNCHANGED <<reqPath, BasePath, CacheDir, fsPath, Thumbnail, Preview>>
    /\ UNCHANGED notPathVars

\* localfs.FileSystem.Copy(src, dst): srcPath := l.resolve(src); os.Open(srcPath)
PathCopy ==
    /\ pathPc = "copy"
    /\ opened' = opened \cup {[kind |-> "source", root |-> fsPath, path |-> resolve(fsPath, filePath)]}
    /\ pathPc' = "process"
    /\ UNCHANGED <<reqPath, BasePath, CacheDir, fsPath, Thumbnail, Preview, filePath>>
    /\ UNCHANGED notPathVars

\* processVideo -> generatePreview: the preview quality is one of the presets,
\* the files are previews/<key>_<quality>.mp4 and previews/temp_<key>/...
PathPreview ==
    /\ pathPc = "process"
    /\ Preview # <<>>
    /\ LET dir == Join(CacheDir, <<"previews">>)
           tempDir == Join(dir, <<"temp_", "k">>)
       IN opened' = opened \cup
             {[kind |-> "preview", root |-> CacheDir, path |-> Join(dir, <<"k", "_", "480p", ".mp4">>)],
              [kind |-> "chunk", root |-> CacheDir, path |-> Join(tempDir, <<"chunk_0.mp4">>)],
              [kind |-> "concat", root |-> CacheDir, path |-> Join(tempDir, <<"concat.txt">>)]}
    /\ pathPc' = "done"
    /\ UNCHANGED <<reqPath, BasePath, CacheDir, fsPath, Thumbnail, Preview, filePath>>
    /\ UNCHANGED notPathVars

\* processVideo -> generateThumbnail: finalPath and jpegPath are joined from the
\* cache key, the thumbnail parameter as the client sent it, and the extension.
PathThumbnail ==
    /\ pathPc = "process"
    /\ Preview = <<>>
    /\ Thumbnail # <<>>
    /\ LET dir == Join(CacheDir, <<"thumbnails">>)
       IN opened' = opened \cup
             {[kind |-> "thumbnail", root |-> CacheDir,
               path |-> Join(dir, <<"k", "_">> \o Thumbnail \o <<".jpg">>)],
              [kind |-> "jpeg", root |-> CacheDir,
               path |-> Join(dir, <<"k", "_">> \o Thumbnail \o <<"_temp.jpg">>)]}
    /\ pathPc' = "done"
    /\ UNCHANGED <<reqPath, BasePath, CacheDir, fsPath, Thumbnail, Preview, filePath>>
    /\ UNCHANGED notPathVars

\* processVideo with neither option: the staged file is served as it is.
PathPassThrough ==
    /\ pathPc = "process"
    /\ Preview = <<>>
    /\ Thumbnail = <<>>
    /\ pathPc' = "done"
    /\ UNCHANGED <<reqPath, BasePath, CacheDir, fsPath, Thumbnail, Preview, filePath, opened>>
    /\ UNCHANGED notPathVars

NextPath ==
    \/ PathStageFile
    \/ PathCopy
    \/ PathPreview
    \/ PathThumbnail
    \/ PathPassThrough

SpecPath == SpecPathInit /\ [][NextPath]_vars

\* C14: every path the server resolves for a request starts with the cleaned
\* root it belongs to (the storage's filesystem root for the source, the
\* project's cache directory for the staged file, the lock file and every derived
\* file) followed by the path separator.
C14_PathsUnderRoot ==
    \A o \in opened : HasPrefix(o.path, Clean(o.root) \o Sep)

\* ======================================================================
\* One pass of EvictCache over a cache directory
\* (apps/media/cache_eviction.go).
\* ======================================================================

\* strings.HasSuffix
HasSuffix(s, suffix) ==
    Len(suffix) <= Len(s) /\ SubSeq(s, Len(s) - Len(suffix) + 1, Len(s)) = suffix

\* A walk that takes every file for an eviction candidate.
NoLockFiles(name) == FALSE

\* strings.HasSuffix(p, ".lock")
IsLockFile(name) == HasSuffix(name, <<".lock">>)

\* A pass that never finds the cache within its limit.
NeverWithin(t, limit) == FALSE

\* total <= maxBytes
WithinLimit(t, limit) == t <= limit

RECURSIVE SizeOf(_)
\* The sum of the sizes of the files in S.
SizeOf(S) ==
    IF S = {} THEN 0
    ELSE LET f == CHOOSE x \in S : TRUE IN cacheFiles[f].size + SizeOf(S \ {f})

\* The orders in which filepath.WalkDir's callback can have appended the files in S.
Orders(S) ==
    {q \in [1..Cardinality(S) -> S] : \A a, b \in 1..Cardinality(S) : a # b => q[a] # q[b]}

\* An order with the newest files first.
NewestFirst(S) ==
    {q \in Orders(S) : \A a, b \in 1..Len(q) : a < b => cacheFiles[q[a]].mod >= cacheFiles[q[b]].mod}

\* sort.Slice(entries, func(i, j) bool { return entries[i].mod.Before(entries[j].mod) }):
\* the sort is not stable, so files of equal mtime come in any order.
OldestFirst(S) ==
    {q \in Orders(S) : \A a, b \in 1..Len(q) : a < b => cacheFiles[q[a]].mod <= cacheFiles[q[b]].mod}

\* A lock file is created empty by Storage.StageFile and never written to.
FileAttrs ==
    {[name |-> <<"f">>, size |-> sz, mod |-> m] : sz \in 1..MaxSize, m \in 1..MaxMtime}
    \cup {[name |-> <<"f", ".lock">>, size |-> 0, mod |-> m] : m \in 1..MaxMtime}

SpecEvictInit ==
    /\ cacheFiles \in [CacheFiles -> FileAttrs]
    /\ onDisk = CacheFiles
    /\ maxBytes \in 0..MaxBudget
    /\ entries = <<>>
    /\ total = 0
    /\ next = 0
    /\ removed = 0
    /\ freed = 0
    /\ deleted = {}
    /\ failed = {}
    /\ passPc = "walk"
    /\ StagingIdle
    /\ ConfigInit
    /\ PathIdle
    /\ DeriveIdle
    /\ VideoIdle
    /\ SnapIdle
    /\ ServeIdle
    /\ RequestIdle
    /\ DsnIdle
    /\ HandlerIdle
    /\ CacheIdle

\* if maxBytes <= 0 { return }; filepath.WalkDir(dir, ...): every regular file
\* that is not a lock file is appended to entries and counted in total.
EvictWalk ==
    /\ passPc = "walk"
    /\ IF maxBytes <= 0
       THEN /\ passPc' = "done"
            /\ UNCHANGED <<entries, total>>
       ELSE LET found == {f \in onDisk : ~IsLockFile(cacheFiles[f].name)}
            IN /\ entries' = [k \in 1..Cardinality(found) |->
                                CHOOSE f \in found : Cardinality({g \in found : g < f}) = k - 1]
               /\ total' = SizeOf(found)
               /\ passPc' = "check"
    /\ UNCHANGED <<cacheFiles, onDisk, maxBytes, next, removed, freed, deleted, failed>>
    /\ UNCHANGED notEvictVars

\* if total <= maxBytes { return 0, 0, nil }; sort.Slice(entries, ...)
EvictSort ==
    /\ passPc = "check"
    /\ IF WithinLimit(total, maxBytes)
       THEN /\ passPc' = "done"
            /\ UNCHANGED <<entries, next>>
       ELSE /\ entries' \in OldestFirst({entries[k] : k \in 1..Len(entries)})
            /\ next' = 1
            /\ passPc' = "loop"
    /\ UNCHANGED <<cacheFiles, onDisk, maxBytes, total, removed, freed, deleted, failed>>
    /\ UNCHANGED notEvictVars

\* One iteration of for _, e := range entries: break within the limit, otherwise
\* os.Remove(e.path), which deletes the file or fails and leaves it.
EvictRemove ==
    /\ passPc = "loop"
    /\ next <= Len(entries)
    /\ ~WithinLimit(total, maxBytes)
    /\ LET e == entries[next]
       IN \E removeErr \in BOOLEAN :
             IF removeErr
             THEN /\ failed' = failed \cup {e}
                  /\ UNCHANGED <<onDisk, total, removed, freed, deleted>>
             ELSE /\ onDisk' = onDisk \ {e}
                  /\ total' = total - cacheFiles[e].size
                  /\ freed' = freed + cacheFiles[e].size
                  /\ removed' = removed + 1
                  /\ deleted' = deleted \cup {e}
                  /\ UNCHANGED failed
    /\ next' = next + 1
    /\ UNCHANGED <<cacheFiles, maxBytes, entries, passPc>>
    /\ UNCHANGED notEvictVars

\* The loop ends, by the break or at the end of entries: return removed, freed, nil
EvictReturn ==
    /\ passPc = "loop"
    /\ next > Len(entries) \/ WithinLimit(total, maxBytes)
    /\ passPc' = "done"
    /\ UNCHANGED <<cacheFiles, onDisk, maxBytes, entries, total, next, removed, freed, deleted, failed>>
    /\ UNCHANGED notEvictVars

NextEvict ==
    \/ EvictWalk
    \/ EvictSort
    \/ EvictRemove
    \/ EvictReturn

SpecEvict == SpecEvictInit /\ [][NextEvict]_vars

\* The pass has returned and its budget was positive.
PassDone == passPc = "done" /\ maxBytes > 0
Older(g, f) == cacheFiles[g].mod < cacheFiles[f].mod
\* The files whose name ends in .lock.
LockFiles == {f \in CacheFiles : HasSuffix(cacheFiles[f].name, <<".lock">>)}

\* C15, as stated: after a pass with a positive budget, a cache that was within
\* the budget has lost no file, and a cache that exceeded it is within the budget
\* or holds only lock files.
C15_BudgetOrOnlyLocks ==
    PassDone =>
        /\ SizeOf(CacheFiles) <= maxBytes => onDisk = CacheFiles
        /\ SizeOf(CacheFiles) > maxBytes =>
              (SizeOf(onDisk) <= maxBytes \/ onDisk \subseteq LockFiles)

\* C15, amended: after a pass with a positive budget, a cache that was within the
\* budget has lost no file, and a cache that exceeded it is within the budget or
\* holds only lock files and files whose removal failed.
C15_BudgetOrLocksOrFailed ==
    PassDone =>
        /\ SizeOf(CacheFiles) <= maxBytes => onDisk = CacheFiles
        /\ SizeOf(CacheFiles) > maxBytes =>
              (SizeOf(onDisk) <= maxBytes \/ onDisk \subseteq (LockFiles \cup failed))

\* A pass over a cache above its budget has deleted a file, failed to delete
\* another, and ended with the cache still above the budget.
C15_Witness ==
    PassDone /\ deleted # {} /\ failed # {} /\ SizeOf(onDisk) > maxBytes

\* C16, as stated: a file is deleted only if every older non-lock file was
\* deleted in the same pass.
C16_DeletedIsPrefix ==
    \A f \in deleted : \A g \in CacheFiles \ LockFiles : Older(g, f) => g \in deleted

\* C16, amended: a file is deleted only if every older non-lock file was deleted
\* in the same pass or could not be removed.
C16_DeletedIsPrefixButFailures ==
    \A f \in deleted : \A g \in CacheFiles \ LockFiles :
        Older(g, f) => (g \in deleted \/ g \in failed)

\* A file was deleted after the removal of an older one failed.
C16_Witness ==
    \E f \in deleted : \E g \in failed : Older(g, f)

\* C17: a file whose name ends in .lock is never deleted by a pass, whatever
\* its age and however far the cache is above the budget.
C17_LockFilesKept ==
    /\ LockFiles \subseteq onDisk
    /\ deleted \cap LockFiles = {}

\* A pass has deleted every file that is not a lock file, and a lock file older
\* than a deleted file is still there.
C17_Witness ==
    /\ PassDone
    /\ deleted = CacheFiles \ LockFiles
    /\ \E l \in LockFiles : \E f \in deleted : Older(l, f) /\ l \in onDisk

\* ======================================================================
\* The processors that write derived files (encoders: convertImage,
\* generatePreview, generateThumbnail).  NumWorkers requests for the same
\* staged source run the same processor, each with its own options; a
\* request that has been answered is followed by another with the same
\* options.
\* ======================================================================

\* Options.ToString: fmt.Sprintf("%dx%da%tq%dd%sp%s", Width, Height,
\* KeepAspectRatio, Quality, CropDirection, Profile), as its parts.
OptionsToString(o) ==
    <<o.Width, "x", o.Height, "a", o.KeepAspectRatio, "q", o.Quality, "d", o.CropDirection,
      "p", o.Profile>>

\* generateCacheKey: the md5 of "%s_%s_%s_%d_%s" over the original path,
\* Preview, Thumbnail, SS and OutputFormat; distinct inputs of the model have
\* distinct digests.
generateCacheKey(originalPath, o) ==
    <<"md5", originalPath, "_", o.Preview, "_", o.Thumbnail, "_", o.SS, "_", o.OutputFormat>>

\* generatePreview: any quality but the four presets becomes "480p".
PreviewQuality(q) == IF q \in {"480p", "720p", "1080p", "4k"} THEN q ELSE "480p"

\* getImageFormat: the extension of the thumbnail.
getImageFormat(f) ==
    IF f = "webp" THEN "webp"
    ELSE IF f = "png" THEN "png"
    ELSE IF f = "avif" THEN "avif"
    ELSE "jpg"

\* The derived path of a request: ProcessedFilePath of convertImage, previewPath
\* of generatePreview, finalPath of generateThumbnail.
DerivedPath(proc, o) ==
    IF proc = "convertImage"
    THEN <<"cache/a">> \o OptionsToString(o) \o <<".", o.OutputFormat>>
    ELSE IF proc = "generatePreview"
    THEN <<"cache/previews/">> \o generateCacheKey("a.mp4", o) \o <<"_", PreviewQuality(o.Preview), ".mp4">>
    ELSE <<"cache/thumbnails/">> \o generateCacheKey("a.mp4", o)
            \o <<"_", o.Thumbnail, ".", getImageFormat(IF o.OutputFormat = "" THEN "jpeg" ELSE o.OutputFormat)>>

ImageOptions ==
    {[Width |-> wd, Height |-> 0, KeepAspectRatio |-> TRUE, Quality |-> 0, CropDirection |-> "",
      Profile |-> "", OutputFormat |-> "webp", Preview |-> "", Thumbnail |-> "", SS |-> 0,
      Detail |-> dt] :
        wd \in {0, 100}, dt \in BOOLEAN}
PreviewOptions ==
    {[Width |-> 0, Height |-> 0, KeepAspectRatio |-> TRUE, Quality |-> 0, CropDirection |-> "",
      Profile |-> "", OutputFormat |-> "mp4", Preview |-> pv, Thumbnail |-> "", SS |-> 0,
      Detail |-> FALSE] :
        pv \in {"480p", "720p"}}
ThumbnailOptions ==
    {[Width |-> 0, Height |-> 0, KeepAspectRatio |-> TRUE, Quality |-> 0, CropDirection |-> "",
      Profile |-> "", OutputFormat |-> "mp4", Preview |-> "", Thumbnail |-> "480p", SS |-> ss,
      Detail |-> FALSE] :
        ss \in {0, 5}}
OptionsOf(proc) ==
    IF proc = "convertImage" THEN ImageOptions
    ELSE IF proc = "generatePreview" THEN PreviewOptions
    ELSE ThumbnailOptions

\* gpath.IsFileExist(input.ProcessedFilePath) / os.Stat(previewPath) == nil
CacheHit(f) == f.exists

SpecDeriveInit ==
    /\ processor \in {"convertImage", "generatePreview", "generateThumbnail"}
    /\ opt \in [Workers -> OptionsOf(processor)]
    /\ derivedFiles = [path \in {DerivedPath(processor, o) : o \in OptionsOf(processor)} |-> NoDerived]
    /\ metadataFile = "absent"
    /\ derivePc = [w \in Workers |-> "invoke"]
    /\ outOff = [w \in Workers |-> 0]
    /\ ProcessedFilePath = [w \in Workers |-> <<>>]
    /\ sawAtCheck = [w \in Workers |-> NoDerived]
    /\ outcome = [w \in Workers |-> "none"]
    /\ producedAtEntry = [w \in Workers |-> FALSE]
    /\ ranTool = [w \in Workers |-> FALSE]
    /\ ranIdentify = [w \in Workers |-> FALSE]
    /\ openedOutput = [w \in Workers |-> FALSE]
    /\ leftPartial = [w \in Workers |-> FALSE]
    /\ StagingIdle
    /\ ConfigInit
    /\ PathIdle
    /\ EvictIdle
    /\ VideoIdle
    /\ SnapIdle
    /\ ServeIdle
    /\ RequestIdle
    /\ DsnIdle
    /\ HandlerIdle
    /\ CacheIdle

\* ServeMedia calls options.Encoder.Processor(&req).  processImage with
\* Options.Detail looks for the metadata cache first; every other invocation
\* goes to the derived path.
Invoke(w) ==
    /\ derivePc[w] = "invoke"
    /\ producedAtEntry' = [producedAtEntry EXCEPT ![w] =
                             opt[w] \in derivedFiles[DerivedPath(processor, opt[w])].by]
    /\ derivePc' = [derivePc EXCEPT ![w] =
                       IF processor = "convertImage" /\ opt[w].Detail THEN "metadata" ELSE "check"]
    /\ UNCHANGED <<processor, opt, derivedFiles, metadataFile, outOff, ProcessedFilePath, sawAtCheck,
                   outcome, ranTool, ranIdentify, openedOutput, leftPartial>>
    /\ UNCHANGED notDeriveVars

\* processImage: gpath.IsFileExist(metadataCacheFile) and the two os.Stat calls;
\* the staged file is never newer than a metadata file made from it.
MetadataCheck(w) ==
    /\ derivePc[w] = "metadata"
    /\ derivePc' = [derivePc EXCEPT ![w] = IF metadataFile # "absent" THEN "readMetadata" ELSE "identify"]
    /\ UNCHANGED <<processor, opt, derivedFiles, metadataFile, outOff, ProcessedFilePath, sawAtCheck,
                   outcome, producedAtEntry, ranTool, ranIdentify, openedOutput, leftPartial>>
    /\ UNCHANGED notDeriveVars

\* processImage: os.ReadFile(metadataCacheFile) and json.Unmarshal: a file with
\* nothing in it does not parse (nor does a missing one read), input.Metadata
\* stays nil and the metadata is extracted again.
MetadataRead(w) ==
    /\ derivePc[w] = "readMetadata"
    /\ derivePc' = [derivePc EXCEPT ![w] = IF metadataFile = "written" THEN "check" ELSE "identify"]
    /\ UNCHANGED <<processor, opt, derivedFiles, metadataFile, outOff, ProcessedFilePath, sawAtCheck,
                   outcome, producedAtEntry, ranTool, ranIdentify, openedOutput, leftPartial>>
    /\ UNCHANGED notDeriveVars

\* processImage: ExtractImageExif -> extractImageMagickMetadata runs identify;
\* then os.WriteFile(metadataCacheFile, ...) creates or truncates the file.
MetadataExtract(w) ==
    /\ derivePc[w] = "identify"
    /\ ranIdentify' = [ranIdentify EXCEPT ![w] = TRUE]
    /\ metadataFile' = "empty"
    /\ derivePc' = [derivePc EXCEPT ![w] = "writeMetadata"]
    /\ UNCHANGED <<processor, opt, derivedFiles, outOff, ProcessedFilePath, sawAtCheck,
                   outcome, producedAtEntry, ranTool, openedOutput, leftPartial>>
    /\ UNCHANGED notDeriveVars

\* os.WriteFile: the serialized metadata is written and the file closed.
MetadataWrite(w) ==
    /\ derivePc[w] = "writeMetadata"
    /\ metadataFile' = "written"
    /\ derivePc' = [derivePc EXCEPT ![w] = "check"]
    /\ UNCHANGED <<processor, opt, derivedFiles, outOff, ProcessedFilePath, sawAtCheck,
                   outcome, producedAtEntry, ranTool, ranIdentify, openedOutput, leftPartial>>
    /\ UNCHANGED notDeriveVars

\* The derived path is computed and looked for: a file there is returned as the
\* result; otherwise convertImage goes straight to convert, and the video
\* processors to the steps before their last tool.  convertImage sets
\* ProcessedFilePath before it looks, the video processors on a hit or a success.
DeriveCheck(w) ==
    /\ derivePc[w] = "check"
    /\ LET path == DerivedPath(processor, opt[w])
       IN /\ sawAtCheck' = [sawAtCheck EXCEPT ![w] = derivedFiles[path]]
          /\ IF CacheHit(derivedFiles[path])
             THEN /\ ProcessedFilePath' = [ProcessedFilePath EXCEPT ![w] = path]
                  /\ outcome' = [outcome EXCEPT ![w] = "hit"]
                  /\ derivePc' = [derivePc EXCEPT ![w] = "done"]
             ELSE /\ ProcessedFilePath' = [ProcessedFilePath EXCEPT ![w] =
                                              IF processor = "convertImage" THEN path ELSE @]
                  /\ derivePc' = [derivePc EXCEPT ![w] =
                                     IF processor = "convertImage" THEN "tool" ELSE "before"]
                  /\ UNCHANGED outcome
    /\ UNCHANGED <<processor, opt, derivedFiles, metadataFile, outOff, producedAtEntry, ranTool,
                   ranIdentify, openedOutput, leftPartial>>
    /\ UNCHANGED notDeriveVars

\* generatePreview: ffprobe, the chunk extractions and concat.txt;
\* generateThumbnail: ffprobe and the ffmpeg run that writes the temporary JPEG.
\* None of them touches the derived path.
DeriveBefore(w) ==
    /\ derivePc[w] = "before"
    /\ \E err \in BOOLEAN :
          IF err
          THEN /\ outcome' = [outcome EXCEPT ![w] = "err"]
               /\ derivePc' = [derivePc EXCEPT ![w] = "done"]
          ELSE /\ derivePc' = [derivePc EXCEPT ![w] = "tool"]
               /\ UNCHANGED outcome
    /\ UNCHANGED <<processor, opt, derivedFiles, metadataFile, outOff, ProcessedFilePath, sawAtCheck,
                   producedAtEntry, ranTool, ranIdentify, openedOutput, leftPartial>>
    /\ UNCHANGED notDeriveVars

\* The tool whose output argument is the derived path is started (convert for
\* convertImage and generateThumbnail, ffmpeg -y for generatePreview) and
\* creates or truncates its output file.
ToolOpen(w) ==
    /\ derivePc[w] = "tool"
    /\ derivedFiles' = [derivedFiles EXCEPT ![DerivedPath(processor, opt[w])] =
                           [exists |-> TRUE, len |-> 0, done |-> FALSE, by |-> {}]]
    /\ outOff' = [outOff EXCEPT ![w] = 0]
    /\ ranTool' = [ranTool EXCEPT ![w] = TRUE]
    /\ openedOutput' = [openedOutput EXCEPT ![w] = TRUE]
    /\ derivePc' = [derivePc EXCEPT ![w] = "write"]
    /\ UNCHANGED <<processor, opt, metadataFile, ProcessedFilePath, sawAtCheck, outcome,
                   producedAtEntry, ranIdentify, leftPartial>>
    /\ UNCHANGED notDeriveVars

\* The tool writes one more piece of its output.
ToolWrite(w) ==
    /\ derivePc[w] = "write"
    /\ outOff[w] < OutLen
    /\ derivedFiles' = [derivedFiles EXCEPT ![DerivedPath(processor, opt[w])] =
                           [exists |-> TRUE,
                            len |-> IF @.len > outOff[w] + 1 THEN @.len ELSE outOff[w] + 1,
                            done |-> FALSE,
                            by |-> {}]]
    /\ outOff' = [outOff EXCEPT ![w] = @ + 1]
    /\ UNCHANGED <<processor, opt, metadataFile, derivePc, ProcessedFilePath, sawAtCheck, outcome,
                   producedAtEntry, ranTool, ranIdentify, openedOutput, leftPartial>>
    /\ UNCHANGED notDeriveVars

\* The tool exits with status 0: the processor sets ProcessedFilePath where it
\* has not yet and returns nil.
ToolExit(w) ==
    /\ derivePc[w] = "write"
    /\ outOff[w] = OutLen
    /\ derivedFiles' = [derivedFiles EXCEPT ![DerivedPath(processor, opt[w])] =
                           [@ EXCEPT !.done = TRUE, !.by = @ \cup {opt[w]}]]
    /\ ProcessedFilePath' = [ProcessedFilePath EXCEPT ![w] = DerivedPath(processor, opt[w])]
    /\ outcome' = [outcome EXCEPT ![w] = "ok"]
    /\ derivePc' = [derivePc EXCEPT ![w] = "done"]
    /\ UNCHANGED <<processor, opt, metadataFile, outOff, sawAtCheck, producedAtEntry, ranTool,
                   ranIdentify, openedOutput, leftPartial>>
    /\ UNCHANGED notDeriveVars

\* The tool exits with an error or is killed at the timeout, before it has
\* opened its output or part way through writing it: the processor returns the
\* error (generateThumbnail after removing the temporary JPEG).  Nothing removes
\* the file at the derived path.
ToolFail(w) ==
    /\ derivePc[w] \in {"tool", "write"}
    /\ derivePc[w] = "write" => outOff[w] < OutLen
    /\ ranTool' = [ranTool EXCEPT ![w] = TRUE]
    /\ outcome' = [outcome EXCEPT ![w] = "err"]
    /\ leftPartial' = [leftPartial EXCEPT ![w] =
                          openedOutput[w] /\ derivedFiles[DerivedPath(processor, opt[w])].exists]
    /\ derivePc' = [derivePc EXCEPT ![w] = "done"]
    /\ UNCHANGED <<processor, opt, derivedFiles, metadataFile, outOff, ProcessedFilePath, sawAtCheck,
                   producedAtEntry, ranIdentify, openedOutput>>
    /\ UNCHANGED notDeriveVars

\* The request is answered; the processor is invoked again with the same source
\* and the same options.
InvokeAgain(w) ==
    /\ derivePc[w] = "done"
    /\ outcome[w] # "none"
    /\ derivePc' = [derivePc EXCEPT ![w] = "invoke"]
    /\ outOff' = [outOff EXCEPT ![w] = 0]
    /\ ProcessedFilePath' = [ProcessedFilePath EXCEPT ![w] = <<>>]
    /\ sawAtCheck' = [sawAtCheck EXCEPT ![w] = NoDerived]
    /\ outcome' = [outcome EXCEPT ![w] = "none"]
    /\ producedAtEntry' = [producedAtEntry EXCEPT ![w] = FALSE]
    /\ ranTool' = [ranTool EXCEPT ![w] = FALSE]
    /\ ranIdentify' = [ranIdentify EXCEPT ![w] = FALSE]
    /\ openedOutput' = [openedOutput EXCEPT ![w] = FALSE]
    /\ leftPartial' = [leftPartial EXCEPT ![w] = FALSE]
    /\ UNCHANGED <<processor, opt, derivedFiles, metadataFile>>
    /\ UNCHANGED notDeriveVars

NextDerive ==
    \/ \E w \in Workers : Invoke(w)
    \/ \E w \in Workers : MetadataCheck(w)
    \/ \E w \in Workers : MetadataRead(w)
    \/ \E w \in Workers : MetadataExtract(w)
    \/ \E w \in Workers : MetadataWrite(w)
    \/ \E w \in Workers : DeriveCheck(w)
    \/ \E w \in Workers : DeriveBefore(w)
    \/ \E w \in Workers : ToolOpen(w)
    \/ \E w \in Workers : ToolWrite(w)
    \/ \E w \in Workers : ToolExit(w)
    \/ \E w \in Workers : ToolFail(w)
    \/ \E w \in Workers : InvokeAgain(w)

SpecDerive == SpecDeriveInit /\ [][NextDerive]_vars

\* The whole output of a tool run that exited with success.
CompleteOutput(f) == f.exists /\ f.len = OutLen /\ f.done

\* C18: a file that an invocation finds at its derived path and takes as a cache
\* hit is the complete output of a processor run that succeeded, never a file
\* still being written or left by a failed run.
C18_HitIsCompleteOutput ==
    \A w \in Workers : outcome[w] = "hit" => CompleteOutput(sawAtCheck[w])

\* C19: when the tool of a processor fails or times out, the output it partially
\* wrote is no longer at the derived path when the processor returns the error.
C19_PartialOutputRemoved ==
    \A w \in Workers : outcome[w] = "err" => ~leftPartial[w]

\* C20: an invocation made when the file at the derived path of its source and
\* options is one that an invocation with the same options produced starts no
\* external tool, and once it has returned it has returned that path as a
\* cache hit; invocations with the same options resolve to the same path.
C20_ReinvokeIsCacheHit ==
    /\ \A w \in Workers :
          producedAtEntry[w] =>
              /\ ~ranTool[w]
              /\ ~ranIdentify[w]
              /\ derivePc[w] = "done" =>
                    (outcome[w] = "hit" /\ ProcessedFilePath[w] = DerivedPath(processor, opt[w]))
    /\ \A v, w \in Workers :
          (opt[v] = opt[w] /\ ProcessedFilePath[v] # <<>> /\ ProcessedFilePath[w] # <<>>) =>
              ProcessedFilePath[v] = ProcessedFilePath[w]

\* ======================================================================
\* generatePreview and generateThumbnail: working files, chunk goroutines
\* and the thumbnail timestamp.  The tools themselves do not fail here; a
\* step fails when a file or directory it needs is not there.
\* ======================================================================

\* generatePreview: chunksToExtract for a video of d seconds.
chunksToExtract(d) ==
    LET totalPossibleChunks == IF d \div chunkDuration < 1 THEN 1 ELSE d \div chunkDuration
    IN IF totalPossibleChunks < maxChunks THEN totalPossibleChunks ELSE maxChunks

ChunkIndexes == 0..(chunksToExtract(duration) - 1)

\* Between the creation of its working files and its return, a run depends on them.
PreviewWorking == {"chunks", "concatTxt", "concat", "concatRun"}

\* defer os.RemoveAll(tempDir), as run w returns: the directory, every chunk
\* and concat.txt go, whoever made them.
RemoveAllTempDir(w) ==
    /\ tempDirOnDisk' = FALSE
    /\ chunkFile' = [chunkIndex \in 0..(maxChunks - 1) |-> "none"]
    /\ concatFile' = FALSE
    /\ lostFiles' = [v \in Workers |->
                        lostFiles[v] \/ (v # w /\ tempDirOnDisk /\ videoPc[v] \in PreviewWorking)]

SpecVideoInit ==
    /\ videoProcessor \in {"generatePreview", "generateThumbnail"}
    /\ ssSupplied \in BOOLEAN
    /\ SS \in IF ssSupplied THEN {0, 3} ELSE {0}
    /\ duration \in Durations
    /\ videoPc \in {pcs \in [Workers -> {"stat", "absent"}] :
                      /\ pcs[1] = "stat"
                      /\ pcs[2] = "stat" => duration <= MaxSharedDuration}
    /\ tempDirOnDisk = FALSE
    /\ chunkFile = [chunkIndex \in 0..(maxChunks - 1) |-> "none"]
    /\ concatFile = FALSE
    /\ jpegFile = "none"
    /\ videoOut = "none"
    /\ chunkRun = [w \in Workers |-> [chunkIndex \in 0..(maxChunks - 1) |-> "idle"]]
    /\ inputsWhole = [w \in Workers |-> TRUE]
    /\ timestamp = [w \in Workers |-> NoTimestamp]
    /\ videoOutcome = [w \in Workers |-> "none"]
    /\ lostFiles = [w \in Workers |-> FALSE]
    /\ StagingIdle
    /\ ConfigInit
    /\ PathIdle
    /\ EvictIdle
    /\ DeriveIdle
    /\ SnapIdle
    /\ ServeIdle
    /\ RequestIdle
    /\ DsnIdle
    /\ HandlerIdle
    /\ CacheIdle

\* os.Stat(previewPath) / os.Stat(finalPath): any file there is a cache hit.
VideoStat(w) ==
    /\ videoPc[w] = "stat"
    /\ IF videoOut # "none"
       THEN /\ videoOutcome' = [videoOutcome EXCEPT ![w] = "hit"]
            /\ videoPc' = [videoPc EXCEPT ![w] = "done"]
       ELSE /\ videoPc' = [videoPc EXCEPT ![w] =
                              IF videoProcessor = "generatePreview" THEN "duration" ELSE "timestamp"]
            /\ UNCHANGED videoOutcome
    /\ UNCHANGED <<videoProcessor, ssSupplied, SS, duration, tempDirOnDisk, chunkFile, concatFile,
                   jpegFile, videoOut, chunkRun, inputsWhole, timestamp, lostFiles>>
    /\ UNCHANGED notVideoVars

\* generatePreview: getVideoDuration, the chunk arithmetic, os.MkdirAll(tempDir)
\* and the loop that starts one goroutine per chunk.
PreviewSetup(w) ==
    /\ videoPc[w] = "duration"
    /\ tempDirOnDisk' = TRUE
    /\ videoPc' = [videoPc EXCEPT ![w] = "chunks"]
    /\ UNCHANGED <<videoProcessor, ssSupplied, SS, duration, chunkFile, concatFile, jpegFile, videoOut,
                   chunkRun, inputsWhole, timestamp, videoOutcome, lostFiles>>
    /\ UNCHANGED notVideoVars

\* A chunk goroutine starts its ffmpeg (cmd.Run): ffmpeg -y creates or truncates
\* chunk_<i>.mp4, or fails at once where the directory is gone.
ChunkStart(w, chunkIndex) ==
    /\ videoPc[w] = "chunks"
    /\ chunkIndex \in ChunkIndexes
    /\ chunkRun[w][chunkIndex] = "idle"
    /\ IF tempDirOnDisk
       THEN /\ chunkFile' = [chunkFile EXCEPT ![chunkIndex] = "partial"]
            /\ chunkRun' = [chunkRun EXCEPT ![w][chunkIndex] = "running"]
            /\ lostFiles' = [v \in Workers |->
                                lostFiles[v] \/ (/\ v # w
                                                 /\ videoPc[v] \in PreviewWorking
                                                 /\ chunkRun[v][chunkIndex] = "ok"
                                                 /\ chunkFile[chunkIndex] = "complete")]
       ELSE /\ chunkRun' = [chunkRun EXCEPT ![w][chunkIndex] = "err"]
            /\ UNCHANGED <<chunkFile, lostFiles>>
    /\ UNCHANGED <<videoProcessor, ssSupplied, SS, duration, videoPc, tempDirOnDisk, concatFile,
                   jpegFile, videoOut, inputsWhole, timestamp, videoOutcome>>
    /\ UNCHANGED notVideoVars

\* The chunk's ffmpeg exits: chunkPaths[chunkIndex] = chunkPath.  A file that
\* was unlinked while ffmpeg had it open stays gone.
ChunkExit(w, chunkIndex) ==
    /\ videoPc[w] = "chunks"
    /\ chunkRun[w][chunkIndex] = "running"
    /\ chunkRun' = [chunkRun EXCEPT ![w][chunkIndex] = "ok"]
    /\ chunkFile' = [chunkFile EXCEPT ![chunkIndex] = IF @ = "none" THEN "none" ELSE "complete"]
    /\ UNCHANGED <<videoProcessor, ssSupplied, SS, duration, videoPc, tempDirOnDisk, concatFile,
                   jpegFile, videoOut, inputsWhole, timestamp, videoOutcome, lostFiles>>
    /\ UNCHANGED notVideoVars

\* wg.Wait() and the scan of errors: the first error is returned.
PreviewWait(w) ==
    /\ videoPc[w] = "chunks"
    /\ \A chunkIndex \in ChunkIndexes : chunkRun[w][chunkIndex] \in {"ok", "err"}
    /\ IF \E chunkIndex \in ChunkIndexes : chunkRun[w][chunkIndex] = "err"
       THEN /\ RemoveAllTempDir(w)
            /\ videoOutcome' = [videoOutcome EXCEPT ![w] = "err"]
            /\ videoPc' = [videoPc EXCEPT ![w] = "done"]
       ELSE /\ videoPc' = [videoPc EXCEPT ![w] = "concatTxt"]
            /\ UNCHANGED <<tempDirOnDisk, chunkFile, concatFile, lostFiles, videoOutcome>>
    /\ UNCHANGED <<videoProcessor, ssSupplied, SS, duration, jpegFile, videoOut, chunkRun, inputsWhole,
                   timestamp>>
    /\ UNCHANGED notVideoVars

\* os.WriteFile(concatFile, ...): fails where the directory is gone.
PreviewConcatFile(w) ==
    /\ videoPc[w] = "concatTxt"
    /\ IF tempDirOnDisk
       THEN /\ concatFile' = TRUE
            /\ videoPc' = [videoPc EXCEPT ![w] = "concat"]
            /\ UNCHANGED <<tempDirOnDisk, chunkFile, lostFiles, videoOutcome>>
       ELSE /\ RemoveAllTempDir(w)
            /\ videoOutcome' = [videoOutcome EXCEPT ![w] = "err"]
            /\ videoPc' = [videoPc EXCEPT ![w] = "done"]
    /\ UNCHANGED <<videoProcessor, ssSupplied, SS, duration, jpegFile, videoOut, chunkRun, inputsWhole,
                   timestamp>>
    /\ UNCHANGED notVideoVars

\* The concatenating ffmpeg starts: it needs concat.txt and every chunk listed
\* in it; with them it creates or truncates previewPath.
PreviewConcat(w) ==
    /\ videoPc[w] = "concat"
    /\ IF concatFile /\ \A chunkIndex \in ChunkIndexes : chunkFile[chunkIndex] # "none"
       THEN /\ inputsWhole' = [inputsWhole EXCEPT ![w] =
                                  \A chunkIndex \in ChunkIndexes : chunkFile[chunkIndex] = "complete"]
            /\ videoOut' = "partial"
            /\ videoPc' = [videoPc EXCEPT ![w] = "concatRun"]
            /\ UNCHANGED <<tempDirOnDisk, chunkFile, concatFile, lostFiles, videoOutcome>>
       ELSE /\ RemoveAllTempDir(w)
            /\ videoOutcome' = [videoOutcome EXCEPT ![w] = "err"]
            /\ videoPc' = [videoPc EXCEPT ![w] = "done"]
            /\ UNCHANGED <<inputsWhole, videoOut>>
    /\ UNCHANGED <<videoProcessor, ssSupplied, SS, duration, jpegFile, chunkRun, timestamp>>
    /\ UNCHANGED notVideoVars

\* The concatenating ffmpeg exits; input.ProcessedFilePath = previewPath,
\* return nil and the deferred RemoveAll.
PreviewConcatExit(w) ==
    /\ videoPc[w] = "concatRun"
    /\ videoOut' = IF inputsWhole[w] THEN "whole" ELSE "corrupt"
    /\ RemoveAllTempDir(w)
    /\ videoOutcome' = [videoOutcome EXCEPT ![w] = "ok"]
    /\ videoPc' = [videoPc EXCEPT ![w] = "done"]
    /\ UNCHANGED <<videoProcessor, ssSupplied, SS, duration, jpegFile, chunkRun, inputsWhole, timestamp>>
    /\ UNCHANGED notVideoVars


\* generateThumbnail: timestamp := float64(input.Options.SS); with SS == 0 the
\* duration is probed and the middle of the video is taken.
ThumbnailTimestamp(w) ==
    /\ videoPc[w] = "timestamp"
    /\ timestamp' = [timestamp EXCEPT ![w] = IF SS = 0 THEN duration \div 2 ELSE SS]
    /\ videoPc' = [videoPc EXCEPT ![w] = "ffmpeg"]
    /\ UNCHANGED <<videoProcessor, ssSupplied, SS, duration, tempDirOnDisk, chunkFile, concatFile,
                   jpegFile, videoOut, chunkRun, inputsWhole, videoOutcome, lostFiles>>
    /\ UNCHANGED notVideoVars

\* ffmpeg -ss timestamp ... -y jpegPath starts: the temporary JPEG is created
\* or truncated.
ThumbnailFfmpeg(w) ==
    /\ videoPc[w] = "ffmpeg"
    /\ jpegFile' = "partial"
    /\ lostFiles' = [v \in Workers |->
                        lostFiles[v] \/ (v # w /\ videoPc[v] = "convert" /\ jpegFile = "complete")]
    /\ videoPc' = [videoPc EXCEPT ![w] = "ffmpegRun"]
    /\ UNCHANGED <<videoProcessor, ssSupplied, SS, duration, tempDirOnDisk, chunkFile, concatFile,
                   videoOut, chunkRun, inputsWhole, timestamp, videoOutcome>>
    /\ UNCHANGED notVideoVars

\* ffmpeg exits.
ThumbnailFfmpegExit(w) ==
    /\ videoPc[w] = "ffmpegRun"
    /\ jpegFile' = IF jpegFile = "none" THEN "none" ELSE "complete"
    /\ videoPc' = [videoPc EXCEPT ![w] = "convert"]
    /\ UNCHANGED <<videoProcessor, ssSupplied, SS, duration, tempDirOnDisk, chunkFile, concatFile,
                   videoOut, chunkRun, inputsWhole, timestamp, videoOutcome, lostFiles>>
    /\ UNCHANGED notVideoVars

\* convert jpegPath ... finalPath starts: without its input it fails, and the
\* error is returned after os.Remove(jpegPath); with it, it creates or
\* truncates finalPath.
ThumbnailConvert(w) ==
    /\ videoPc[w] = "convert"
    /\ IF jpegFile = "none"
       THEN /\ videoOutcome' = [videoOutcome EXCEPT ![w] = "err"]
            /\ videoPc' = [videoPc EXCEPT ![w] = "done"]
            /\ UNCHANGED <<inputsWhole, videoOut>>
       ELSE /\ inputsWhole' = [inputsWhole EXCEPT ![w] = jpegFile = "complete"]
            /\ videoOut' = "partial"
            /\ videoPc' = [videoPc EXCEPT ![w] = "convertRun"]
            /\ UNCHANGED videoOutcome
    /\ UNCHANGED <<videoProcessor, ssSupplied, SS, duration, tempDirOnDisk, chunkFile, concatFile,
                   jpegFile, chunkRun, timestamp, lostFiles>>
    /\ UNCHANGED notVideoVars

\* convert exits; os.Remove(jpegPath), input.ProcessedFilePath = finalPath.
ThumbnailConvertExit(w) ==
    /\ videoPc[w] = "convertRun"
    /\ videoOut' = IF inputsWhole[w] THEN "whole" ELSE "corrupt"
    /\ jpegFile' = "none"
    /\ lostFiles' = [v \in Workers |->
                        lostFiles[v] \/ (/\ v # w
                                         /\ jpegFile # "none"
                                         /\ videoPc[v] \in {"ffmpegRun", "convert"})]
    /\ videoOutcome' = [videoOutcome EXCEPT ![w] = "ok"]
    /\ videoPc' = [videoPc EXCEPT ![w] = "done"]
    /\ UNCHANGED <<videoProcessor, ssSupplied, SS, duration, tempDirOnDisk, chunkFile, concatFile,
                   chunkRun, inputsWhole, timestamp>>
    /\ UNCHANGED notVideoVars

NextVideo ==
    \/ \E w \in Workers : VideoStat(w)
    \/ \E w \in Workers : PreviewSetup(w)
    \/ \E w \in Workers, chunkIndex \in 0..(maxChunks - 1) : ChunkStart(w, chunkIndex)
    \/ \E w \in Workers, chunkIndex \in 0..(maxChunks - 1) : ChunkExit(w, chunkIndex)
    \/ \E w \in Workers : PreviewWait(w)
    \/ \E w \in Workers : PreviewConcatFile(w)
    \/ \E w \in Workers : PreviewConcat(w)
    \/ \E w \in Workers : PreviewConcatExit(w)
    \/ \E w \in Workers : ThumbnailTimestamp(w)
    \/ \E w \in Workers : ThumbnailFfmpeg(w)
    \/ \E w \in Workers : ThumbnailFfmpegExit(w)
    \/ \E w \in Workers : ThumbnailConvert(w)
    \/ \E w \in Workers : ThumbnailConvertExit(w)

SpecVideo == SpecVideoInit /\ [][NextVideo]_vars

\* Every run of the key has returned.
AllReturned == \A w \in Workers : videoPc[w] \in {"done", "absent"}

\* C21: runs of one derivation key that overlap all return without error, none
\* loses a working file to another, and when all have returned the derived
\* file is what a single run writes.
C21_ConcurrentRunsIdempotent ==
    /\ \A w \in Workers : videoPc[w] = "done" => videoOutcome[w] \in {"ok", "hit"}
    /\ \A w \in Workers : ~lostFiles[w]
    /\ AllReturned => videoOut = "whole"

\* C22: the chunk-extraction subprocesses of one generatePreview run that are
\* running at the same time number at most maxConcurrentChunks.
C22_ChunkConcurrencyBounded ==
    \A w \in Workers :
        Cardinality({chunkIndex \in 0..(maxChunks - 1) : chunkRun[w][chunkIndex] = "running"})
            <= maxConcurrentChunks

\* C30: the frame of a video thumbnail is taken at ss whenever the request
\* supplies ss, 0 included, and at the middle of the duration only when it
\* does not.
C30_TimestampIsSsWhenSupplied ==
    \A w \in Workers :
        timestamp[w] # NoTimestamp =>
            timestamp[w] = IF ssSupplied THEN SS ELSE duration \div 2


\* ======================================================================
\* ParseOptions: widths and heights snapped to the size ladder.
\* ======================================================================

ImageSizes == <<3840, 2560, 1920, 1600, 1280, 1024, 960, 854, 800, 720, 640, 512, 480, 360, 320,
                240, 160, 128, 96, 64, 32>>

\* The smallest ladder value that is not below the request.
FindCeiling(in, sizes) ==
    LET above == {k \in 1..Len(sizes) : sizes[k] >= in}
    IN IF above = {} THEN sizes[1] ELSE sizes[CHOOSE k \in above : \A j \in above : j <= k]

\* FindClosest: the first value of sizes, read from the front, that in reaches;
\* the last value where it reaches none.
FindClosest(in, sizes) ==
    IF Len(sizes) = 0
    THEN in
    ELSE LET reached == {k \in 1..Len(sizes) : in >= sizes[k]}
         IN IF reached = {}
            THEN sizes[Len(sizes)]
            ELSE sizes[CHOOSE k \in reached : \A j \in reached : k <= j]

SpecSnapInit ==
    /\ snapPc = "parse"
    /\ \/ widthParam \in 0..MaxIn /\ heightParam = 0
       \/ widthParam = 0 /\ heightParam \in 0..MaxIn
       \/ widthParam \in {31, 32, 33, 3840, 3841} /\ heightParam \in {1, 32, 500, 4000}
    /\ Width = 0
    /\ Height = 0
    /\ StagingIdle
    /\ ConfigInit
    /\ PathIdle
    /\ EvictIdle
    /\ DeriveIdle
    /\ VideoIdle
    /\ ServeIdle
    /\ RequestIdle
    /\ DsnIdle
    /\ HandlerIdle
    /\ CacheIdle

\* ParseOptions: options.Width and options.Height are set from the request and,
\* where positive, replaced by FindClosest(., ImageSizes).
SnapSizes ==
    /\ snapPc = "parse"
    /\ Width' = IF widthParam > 0 THEN FindClosest(widthParam, ImageSizes) ELSE widthParam
    /\ Height' = IF heightParam > 0 THEN FindClosest(heightParam, ImageSizes) ELSE heightParam
    /\ snapPc' = "done"
    /\ UNCHANGED <<widthParam, heightParam>>
    /\ UNCHANGED notSnapVars

NextSnap == SnapSizes

SpecSnap == SpecSnapInit /\ [][NextSnap]_vars

Ladder == {ImageSizes[k] : k \in 1..Len(ImageSizes)}
LadderMin == CHOOSE s \in Ladder : \A t \in Ladder : s <= t

\* What the ladder owes a positive request w.
SnappedDown(w, out) ==
    IF w < LadderMin
    THEN out = LadderMin
    ELSE /\ out \in Ladder
         /\ out <= w
         /\ \A s \in Ladder : s <= w => s <= out

\* C25: a positive requested width or height is snapped to the largest ladder
\* value that is not above it, and to the ladder minimum (32) when it is below
\* the minimum.
C25_SnapsDownOrToMinimum ==
    snapPc = "done" =>
        /\ widthParam > 0 => SnappedDown(widthParam, Width)
        /\ heightParam > 0 => SnappedDown(heightParam, Height)
        /\ LadderMin = 32

\* A width between two ladder values and a height below the minimum, both snapped.
C25_Witness ==
    /\ snapPc = "done"
    /\ widthParam = 33 /\ Width = 32
    /\ heightParam = 1 /\ Height = 32


\* ======================================================================
\* Request.ServeFile: conditional requests and byte ranges.
\* ======================================================================

\* fmt.Sprintf(`"%x-%x"`, fi.ModTime().Unix(), fi.Size()): the two numbers in
\* hex; distinct pairs give distinct strings, so the pair stands for the string.
ETag(modTime, size) == [kind |-> "etag", unix |-> modTime \div 2, size |-> size]

\* A server that takes any If-None-Match for a match.
IfNoneMatchAny(inm, etag) == inm # Absent

\* c.Get("If-None-Match") == etag
IfNoneMatch(inm, etag) == inm = etag

\* time.Parse(time.RFC1123, ims) succeeded and !fi.ModTime().After(t).
NotModifiedSince(modTime, ims) == ims.kind = "time" /\ ~(modTime > 2 * ims.t)

\* A server that lets a range start at the file size.
NotSatisfiableAbove(start, fileSize) == start > fileSize

\* start >= fileSize
NotSatisfiable(start, fileSize) == start >= fileSize

\* A length that leaves the last byte out.
LengthShort(start, end) == end - start

\* length := end - start + 1
RangeLength(start, end) == end - start + 1

\* file.Seek(start, io.SeekStart) and io.CopyN(c, file, length).
CopyN(bytes, start, length) == SubSeq(bytes, start + 1, start + length)

Response(st, b, cr) == [status |-> st, body |-> b, contentRange |-> cr]

PartialContent(bytes, start, end) ==
    Response(StatusPartialContent, CopyN(bytes, start, RangeLength(start, end)),
             <<start, end, Len(bytes)>>)

\* ServeFile, from the conditional headers on.
ServeFile(bytes, modTime, inm, ims, range) ==
    LET fileSize == Len(bytes)
    IN IF IfNoneMatch(inm, ETag(modTime, fileSize))
       THEN Response(StatusNotModified, <<>>, <<>>)
       ELSE IF NotModifiedSince(modTime, ims)
       THEN Response(StatusNotModified, <<>>, <<>>)
       ELSE IF range.form = "none"
       THEN Response(StatusOK, bytes, <<>>)
       ELSE IF range.form = "malformed"
       THEN Response(ErrBadRequest, <<>>, <<>>)
       ELSE IF range.form = "-suffix"
       THEN IF range.last <= 0
            THEN Response(ErrBadRequest, <<>>, <<>>)
            ELSE PartialContent(bytes,
                                IF range.last >= fileSize THEN 0 ELSE fileSize - range.last,
                                fileSize - 1)
       ELSE IF range.form = "start-"
       THEN IF NotSatisfiable(range.first, fileSize)
            THEN Response(ErrRequestedRangeNotSatisfiable, <<>>, <<>>)
            ELSE PartialContent(bytes, range.first, fileSize - 1)
       ELSE IF range.last < range.first
            THEN Response(ErrBadRequest, <<>>, <<>>)
            ELSE IF NotSatisfiable(range.first, fileSize)
            THEN Response(ErrRequestedRangeNotSatisfiable, <<>>, <<>>)
            ELSE PartialContent(bytes, range.first,
                                IF range.last >= fileSize THEN fileSize - 1 ELSE range.last)

\* The headers a client can send.
IfNoneMatchValues(modTime, size) ==
    {Absent, [kind |-> "star"], ETag(modTime, size), ETag(modTime + 2, size), ETag(modTime, size + 1)}
IfModifiedSinceValues == {Absent, [kind |-> "garbage"]} \cup {[kind |-> "time", t |-> t] : t \in 0..MaxUnix}
RangeValues ==
    {NoRange, [form |-> "malformed", first |-> 0, last |-> 0]}
        \cup {[form |-> "start-end", first |-> a, last |-> b] : a, b \in 0..MaxPos}
        \cup {[form |-> "start-", first |-> a, last |-> 0] : a \in 0..MaxPos}
        \cup {[form |-> "-suffix", first |-> 0, last |-> b] : b \in 0..MaxPos}

SpecServeInit ==
    /\ fileBytes \in {[k \in 1..n |-> k] : n \in 0..MaxFileSize}
    /\ ModTime \in 0..(2 * MaxUnix + 1)
    /\ ifNoneMatch \in IfNoneMatchValues(ModTime, Len(fileBytes))
    /\ ifModifiedSince \in IfModifiedSinceValues
    /\ rangeHeader \in RangeValues
    /\ respStatus = 0
    /\ respBody = <<>>
    /\ contentRange = <<>>
    /\ coverNext = 0
    /\ coverBody = <<>>
    /\ coverCount = 0
    /\ StagingIdle
    /\ ConfigInit
    /\ PathIdle
    /\ EvictIdle
    /\ DeriveIdle
    /\ VideoIdle
    /\ SnapIdle
    /\ RequestIdle
    /\ DsnIdle
    /\ HandlerIdle
    /\ CacheIdle

\* The request is served.
ServeRequest ==
    /\ respStatus = 0
    /\ LET resp == ServeFile(fileBytes, ModTime, ifNoneMatch, ifModifiedSince, rangeHeader)
       IN /\ respStatus' = resp.status
          /\ respBody' = resp.body
          /\ contentRange' = resp.contentRange
    /\ UNCHANGED <<fileBytes, ModTime, ifNoneMatch, ifModifiedSince, rangeHeader, coverNext,
                   coverBody, coverCount>>
    /\ UNCHANGED notServeVars

\* A client that reads the file in successive start-end ranges asks for its
\* next range, which starts where the last one ended.
ServeNextRange ==
    /\ respStatus # 0
    /\ coverNext < Len(fileBytes)
    /\ \E last \in coverNext..MaxPos :
        LET range == [form |-> "start-end", first |-> coverNext, last |-> last]
            resp == ServeFile(fileBytes, ModTime, Absent, Absent, range)
        IN /\ ifNoneMatch' = Absent
           /\ ifModifiedSince' = Absent
           /\ rangeHeader' = range
           /\ respStatus' = resp.status
           /\ respBody' = resp.body
           /\ contentRange' = resp.contentRange
           /\ coverBody' = coverBody \o resp.body
           /\ coverNext' = IF resp.status = StatusPartialContent
                           THEN resp.contentRange[2] + 1
                           ELSE last + 1
           /\ coverCount' = coverCount + 1
           /\ UNCHANGED <<fileBytes, ModTime>>
           /\ UNCHANGED notServeVars

NextServe ==
    \/ ServeRequest
    \/ ServeNextRange

SpecServe == SpecServeInit /\ [][NextServe]_vars

Answered == respStatus # 0


\* The request has a start-end or start- range whose start is at or past the
\* end of the file.
StartPastEnd ==
    /\ rangeHeader.form \in {"start-end", "start-"}
    /\ rangeHeader.first >= Len(fileBytes)

\* C26 (as stated): the response is 304 exactly when If-None-Match is the ETag
\* of the file.
C26_NotModifiedIffEtag ==
    Answered => (respStatus = StatusNotModified <=> ifNoneMatch = ETag(ModTime, Len(fileBytes)))

\* C26 (amended): the response is 304 exactly when If-None-Match is the ETag
\* of the file, or If-Modified-Since parses and the file was not modified
\* after it.
C26_NotModifiedIffEtagOrSince ==
    Answered =>
        (respStatus = StatusNotModified <=>
            \/ ifNoneMatch = ETag(ModTime, Len(fileBytes))
            \/ ifModifiedSince.kind = "time" /\ ModTime <= 2 * ifModifiedSince.t)

\* A 304 that only the ETag explains, on a request that also has a range.
C26_Witness ==
    /\ respStatus = StatusNotModified
    /\ ifNoneMatch = ETag(ModTime, Len(fileBytes))
    /\ ifModifiedSince = Absent
    /\ rangeHeader.form = "start-end"

\* C27: when a client has read the file in successive start-end ranges up to
\* its end, the bodies it received, concatenated, are the body of the 200
\* response.
C27_RangesReassembleBody ==
    (coverCount > 0 /\ coverNext >= Len(fileBytes)) =>
        coverBody = ServeFile(fileBytes, ModTime, Absent, Absent, NoRange).body

\* Three ranges that cover a file of four bytes.
C27_Witness ==
    /\ Len(fileBytes) = MaxFileSize
    /\ coverCount = 3
    /\ coverNext = Len(fileBytes)
    /\ coverBody = fileBytes

\* C28 (as stated): a start-end or start- range whose start is at or past the
\* file size is answered 416.
C28_StartPastEndIs416 ==
    (Answered /\ StartPastEnd) => respStatus = ErrRequestedRangeNotSatisfiable

\* C28 (amended): a start-end or start- range whose start is at or past the
\* file size is answered 416, unless the conditional headers give 304 or the
\* end of a start-end range is below its start.
C28_StartPastEndIs416Unless ==
    (/\ Answered
     /\ StartPastEnd
     /\ respStatus # StatusNotModified
     /\ rangeHeader.form = "start-end" => rangeHeader.last >= rangeHeader.first)
        => respStatus = ErrRequestedRangeNotSatisfiable

\* A range that starts exactly at the file size, answered 416.
C28_Witness ==
    /\ respStatus = ErrRequestedRangeNotSatisfiable
    /\ rangeHeader.form = "start-end"
    /\ rangeHeader.first = Len(fileBytes)
    /\ Len(fileBytes) > 0


\* ------------------------------------------------- one request through ServeMedia

ImageQuality == <<100, 90, 85, 80, 75, 60, 50>>

\* A query parameter as the request carries it: not sent, a text that is no
\* number, or the decimal text of n.
TextParam == [kind |-> "text"]
IntParam(n) == [kind |-> "int", n |-> n]
\* size=<parts joined by "x">
SizeParam(parts) == [kind |-> "size", parts |-> parts]

\* strconv.Atoi
Atoi(v) == IF v.kind = "int" THEN [err |-> FALSE, n |-> v.n] ELSE [err |-> TRUE, n |-> 0]

\* The registered video profiles.
KnownProfiles == {"hd"}

lookupVideoProfile(profile) == profile \in KnownProfiles

\* MediaTypes: per source extension, the encoder of every output format.
MediaTypes ==
    [jpg |-> [Extension |-> "jpg",
              Encoders |-> [jpg |-> "Jpeg", jpeg |-> "Jpeg", webp |-> "Webp", png |-> "Png",
                            gif |-> "Gif", avif |-> "Avif"]],
     mp4 |-> [Extension |-> "mp4",
              Encoders |-> [mp4 |-> "Mp4", jpg |-> "Jpeg", png |-> "Png", json |-> "Json"]]]

\* The Processor field of an encoder; "nil" for none.
Processor(encoder) ==
    CASE encoder = "Mp4" -> "processVideo"
      [] encoder = "Json" -> jsonProcessor
      [] OTHER -> "Imagick"

ParseError(msg) == [error |-> msg]

\* Type.ParseOptions
ParseOptions(t, qy) ==
    LET width == Atoi(qy.width)
        height == Atoi(qy.height)
        Quality == IF qy.q.kind # "absent" THEN qy.q.n ELSE 0
        parts == IF qy.size.kind = "size" THEN qy.size.parts ELSE <<>>
        w1 == IF qy.size.kind = "size" THEN Atoi(parts[1]).n
              ELSE IF qy.width.kind # "absent" THEN width.n ELSE 0
        h1 == IF qy.size.kind = "size" THEN Atoi(parts[2]).n
              ELSE IF qy.height.kind # "absent" THEN height.n ELSE 0
        OutputFormat == IF qy.format = "" THEN t.Extension ELSE qy.format
    IN IF qy.width.kind # "absent" /\ (width.err \/ width.n < 0)
       THEN ParseError("invalid width value")
       ELSE IF qy.height.kind # "absent" /\ (height.err \/ height.n < 0)
       THEN ParseError("invalid height value")
       ELSE IF qy.size.kind # "absent" /\ Len(parts) # 2
       THEN ParseError("invalid size format")
       ELSE IF qy.size.kind # "absent"
               /\ (Atoi(parts[1]).err \/ Atoi(parts[2]).err \/ w1 < 0 \/ h1 < 0)
       THEN ParseError("invalid size value")
       ELSE IF OutputFormat \notin DOMAIN t.Encoders
       THEN ParseError("unsupported output format")
       ELSE IF Quality > 100
       THEN ParseError("invalid quality value")
       ELSE [error |-> "",
             Width |-> IF w1 > 0 THEN FindClosest(w1, ImageSizes) ELSE w1,
             Height |-> IF h1 > 0 THEN FindClosest(h1, ImageSizes) ELSE h1,
             Quality |-> IF Quality > 0 THEN FindClosest(Quality, ImageQuality) ELSE Quality,
             OutputFormat |-> OutputFormat,
             Preview |-> qy.preview,
             Thumbnail |-> qy.thumbnail,
             Detail |-> qy.detail,
             Profile |-> "",
             Encoder |-> t.Encoders[OutputFormat]]

\* The requests explored.
Extensions == {"jpg", "mp4", "exe"}
WidthValues == {Absent, TextParam, IntParam(640)}
HeightValues == {Absent, IntParam(-5), IntParam(480)}
QualityValues == {Absent, IntParam(-5), IntParam(80), IntParam(150)}
SizeValues == {Absent, SizeParam(<<IntParam(640)>>), SizeParam(<<TextParam, IntParam(480)>>),
               SizeParam(<<IntParam(640), IntParam(480)>>)}
FormatValues == {"", "webp", "json", "bmp"}
ProfileValues == {"", "hd", "nosuch"}
Queries ==
    [width : WidthValues, height : HeightValues, q : QualityValues, size : SizeValues,
     format : FormatValues, profile : ProfileValues, preview : {"", "480p"},
     thumbnail : {"", "480p"}, detail : BOOLEAN]

SpecRequestInit ==
    /\ mediaPc = "lookup"
    /\ originFound \in {"none", "noStorages", "ok"}
    /\ urlExtension \in Extensions
    /\ jsonProcessor \in {"nil", "processVideo"}
    /\ query = NoQuery
    /\ reqOptions = NoOptions
    /\ reqProcessedFilePath = ""
    /\ reqMetadata = {}
    /\ reply = NoReply
    /\ StagingIdle
    /\ ConfigInit
    /\ PathIdle
    /\ EvictIdle
    /\ DeriveIdle
    /\ VideoIdle
    /\ SnapIdle
    /\ ServeIdle
    /\ DsnIdle
    /\ HandlerIdle
    /\ CacheIdle

\* ServeMedia returns.
Return(r) ==
    /\ reply' = r
    /\ mediaPc' = "done"

Text(statusCode) == [status |-> statusCode, kind |-> "text", file |-> ""]
Error(statusCode, msg) == [status |-> statusCode, kind |-> "error", file |-> "", error |-> msg]
File(which) == [status |-> StatusOK, kind |-> "file", file |-> which]

\* lookupOrigin(url.Host) and the storages of the origin.
MediaLookup ==
    /\ mediaPc = "lookup"
    /\ IF originFound = "none"
       THEN Return(Text(StatusForbidden))
       ELSE IF originFound = "noStorages"
       THEN Return(Text(StatusInternalServerError))
       ELSE mediaPc' = "type" /\ UNCHANGED reply
    /\ UNCHANGED <<originFound, urlExtension, jsonProcessor, query, reqOptions,
                   reqProcessedFilePath, reqMetadata>>
    /\ UNCHANGED notRequestVars

\* req.MediaType, ok = MediaTypes[req.Extension]
MediaType ==
    /\ mediaPc = "type"
    /\ IF urlExtension \notin DOMAIN MediaTypes
       THEN Return(Text(StatusUnsupportedMediaType))
       ELSE mediaPc' = "options" /\ UNCHANGED reply
    /\ UNCHANGED <<originFound, urlExtension, jsonProcessor, query, reqOptions,
                   reqProcessedFilePath, reqMetadata>>
    /\ UNCHANGED notRequestVars

\* ParseOptions of the request's query, then the profile of the options.
MediaOptions ==
    /\ mediaPc = "options"
    /\ \E qy \in Queries :
        LET options == ParseOptions(MediaTypes[urlExtension], qy)
        IN /\ query' = qy
           /\ reqOptions' = options
           /\ IF options.error # ""
              THEN Return(Error(0, options.error))
              ELSE IF options.Profile # "" /\ ~lookupVideoProfile(options.Profile)
              THEN Return(Text(StatusBadRequest))
              ELSE mediaPc' = "stage" /\ UNCHANGED reply
    /\ UNCHANGED <<originFound, urlExtension, jsonProcessor, reqProcessedFilePath, reqMetadata>>
    /\ UNCHANGED notRequestVars

\* req.StageFile(): staged, being staged by another request, or not found.
MediaStage ==
    /\ mediaPc = "stage"
    /\ \E stageFile \in {"ok", "STAGING", "err"} :
        CASE stageFile = "ok" -> mediaPc' = "process" /\ UNCHANGED reply
          [] stageFile = "STAGING" ->
                Return([status |-> StatusTemporaryRedirect, kind |-> "response", file |-> ""])
          [] stageFile = "err" -> Return(Error(StatusNotFound, "file not found"))
    /\ UNCHANGED <<originFound, urlExtension, jsonProcessor, query, reqOptions,
                   reqProcessedFilePath, reqMetadata>>
    /\ UNCHANGED notRequestVars

\* What a processor leaves in the request when it returns nil: ProcessedFilePath
\* and the keys of Metadata.
processVideo(options) ==
    IF options.Detail \/ options.Preview # "" \/ options.Thumbnail # ""
    THEN {[path |-> "derived", metadata |-> {}]}
    ELSE {[path |-> "", metadata |-> {}]}

\* processImage; ExtractImageExif may fail, which leaves Metadata nil.
processImage(options) ==
    IF options.Detail
    THEN {[path |-> "derived", metadata |-> {"file_size", "modified_time"}],
          [path |-> "derived", metadata |-> {}]}
    ELSE {[path |-> "derived", metadata |-> {}]}

\* encoder.Processor(&req), where the encoder has one.
MediaProcess ==
    /\ mediaPc = "process"
    /\ LET run == Processor(reqOptions.Encoder)
       IN IF run = "nil"
          THEN /\ mediaPc' = "serve"
               /\ UNCHANGED <<reqProcessedFilePath, reqMetadata, reply>>
          ELSE \E err \in BOOLEAN :
                IF err
                THEN /\ Return(Error(0, "processor"))
                     /\ UNCHANGED <<reqProcessedFilePath, reqMetadata>>
                ELSE \E left \in IF run = "processVideo"
                                 THEN processVideo(reqOptions)
                                 ELSE processImage(reqOptions) :
                        /\ reqProcessedFilePath' = left.path
                        /\ reqMetadata' = left.metadata
                        /\ mediaPc' = "serve"
                        /\ UNCHANGED reply
    /\ UNCHANGED <<originFound, urlExtension, jsonProcessor, query, reqOptions>>
    /\ UNCHANGED notRequestVars

\* The processed file whatever the processor left.
serveProcessedFilePath(path) == "derived"

\* serveFilePath: the processed file, or the staged file where the processor set
\* no path.
serveFilePath(path) == IF path = "" THEN "staged" ELSE "derived"

\* What ServeMedia answers after the processor.
MediaServe ==
    /\ mediaPc = "serve"
    /\ \E statErr \in BOOLEAN, serveErr \in BOOLEAN :
        IF Processor(reqOptions.Encoder) # "nil"
        THEN IF reqOptions.Detail /\ Cardinality(reqMetadata) > 0
             THEN Return([status |-> StatusOK, kind |-> "metadata", file |-> ""])
             ELSE IF reqProcessedFilePath # "" /\ statErr
             THEN Return(Error(0, "processor did not produce output file"))
             ELSE IF serveErr
             THEN Return(Error(0, "ServeFile"))
             ELSE Return(File(serveFilePath(reqProcessedFilePath)))
        ELSE IF serveErr
             THEN Return(Error(0, "ServeFile"))
             ELSE Return(File("staged"))
    /\ UNCHANGED <<originFound, urlExtension, jsonProcessor, query, reqOptions,
                   reqProcessedFilePath, reqMetadata>>
    /\ UNCHANGED notRequestVars

NextServeMedia ==
    \/ MediaLookup
    \/ MediaType
    \/ MediaOptions
    \/ MediaStage
    \/ MediaProcess
    \/ MediaServe

SpecRequest == SpecRequestInit /\ [][NextServeMedia]_vars


\* ParseOptions has read the request's query.
Parsed == reqOptions.error # "not parsed"

InvalidNumeric(p) == p.kind # "absent" /\ (p.kind # "int" \/ p.n < 0)

\* Quality is a whole number from 1 to 100.
InvalidQuality(p) == p.kind # "absent" /\ (p.kind # "int" \/ p.n < 1 \/ p.n > 100)

InvalidSize(p) ==
    p.kind # "absent" /\ (Len(p.parts) # 2 \/ \E k \in 1..2 : InvalidNumeric(p.parts[k]))

\* The query carries an invalid width, height, q or size, an output format the
\* media type has no encoder for, or a profile that is not registered.
InvalidOption(t, qy) ==
    \/ InvalidNumeric(qy.width)
    \/ InvalidNumeric(qy.height)
    \/ InvalidQuality(qy.q)
    \/ InvalidSize(qy.size)
    \/ qy.format # "" /\ qy.format \notin DOMAIN t.Encoders
    \/ qy.profile # "" /\ qy.profile \notin KnownProfiles

\* The request was refused as a bad request: ServeMedia set status 400, or it
\* returned the error of ParseOptions.
RefusedAsBadRequest ==
    /\ mediaPc = "done"
    /\ \/ reply.status = StatusBadRequest
       \/ reply.kind = "error" /\ reply.error = reqOptions.error

\* C24: a request whose query carries an invalid numeric option, an unknown
\* output format or an unknown profile is refused as a bad request once its
\* options are parsed.
C24_InvalidOptionIsBadRequest ==
    Parsed /\ InvalidOption(MediaTypes[urlExtension], query) => RefusedAsBadRequest

\* ServeMedia answered with content: a file or the metadata.
AnsweredContent == mediaPc = "done" /\ reply.kind \in {"file", "metadata"}

\* The encoder has no processor, or its processor set no derived path.
NoDerivedPath == Processor(reqOptions.Encoder) = "nil" \/ reqProcessedFilePath = ""

Values(sizes) == {sizes[k] : k \in 1..Len(sizes)}

\* C40: whenever ParseOptions succeeds, Width and Height are each 0 or a value
\* of ImageSizes, and Quality is 0 or a value of ImageQuality.
C40_OptionsOnLadders ==
    Parsed /\ reqOptions.error = "" =>
        /\ reqOptions.Width \in {0} \cup Values(ImageSizes)
        /\ reqOptions.Height \in {0} \cup Values(ImageSizes)
        /\ reqOptions.Quality \in {0} \cup Values(ImageQuality)


\* C39: every 206 response has 0 <= start <= end <= size - 1 in its
\* Content-Range, the file size as the range's total, and end - start + 1 body
\* bytes.
C39_PartialContentWellFormed ==
    respStatus = StatusPartialContent =>
        /\ 0 <= contentRange[1]
        /\ contentRange[1] <= contentRange[2]
        /\ contentRange[2] <= Len(fileBytes) - 1
        /\ contentRange[3] = Len(fileBytes)
        /\ Len(respBody) = contentRange[2] - contentRange[1] + 1


\* The requester whose step this is deletes the lock file as its creator, from
\* the fetch its lock covers.
DeletedByCreator ==
    /\ ~lock.orphan
    /\ pc[lock.creator] \in {"fetch", "copy"}
    /\ pc'[lock.creator] # pc[lock.creator]

\* C32: a step that deletes the lock file is taken by the requester that
\* created it, or the lock file it deletes is older than lockTimeout.
C32_LockDeletedByCreatorOrStale ==
    [][lock.exists /\ ~lock'.exists => DeletedByCreator \/ IsStale(lock)]_vars


\* The step ends a StorageToDisk that had opened the destination, and not with
\* success: io.Copy returned an error, or the process died.
FetchFailedOrInterrupted ==
    \E p \in Procs : pc[p] = "copy" /\ pc'[p] \notin {"copy", "serve"}

\* C33: when a storage fetch fails or is interrupted, no file is left at the
\* staged path.
C33_FailedFetchLeavesNoFile ==
    [][FetchFailedOrInterrupted => ~IsFileExist(staged')]_vars


\* ------------------------------------------------- ParseDSN

\* strconv.ParseInt(val, 10, bits) on the texts explored.
ParseInt(val) ==
    CASE val = "23" -> [ok |-> TRUE, n |-> 23]
      [] val = "2222" -> [ok |-> TRUE, n |-> 2222]
      [] OTHER -> [ok |-> FALSE, n |-> 0]

\* strconv.ParseBool
ParseBool(val) ==
    IF val \in {"1", "t", "T", "TRUE", "true", "True"} THEN [ok |-> TRUE, b |-> TRUE]
    ELSE IF val \in {"0", "f", "F", "FALSE", "false", "False"} THEN [ok |-> TRUE, b |-> FALSE]
    ELSE [ok |-> FALSE, b |-> FALSE]

\* setField: the field after val is assigned to it; a text that does not parse
\* as the field's type leaves the field as it is.
setField(field, val) ==
    CASE field.kind = "string" -> [kind |-> "string", s |-> val]
      [] field.kind = "int" ->
            IF ParseInt(val).ok THEN [kind |-> "int", n |-> ParseInt(val).n] ELSE field
      [] field.kind = "bool" ->
            IF ParseBool(val).ok THEN [kind |-> "bool", b |-> ParseBool(val).b] ELSE field
      [] OTHER -> field

\* The default tag of a field, "" for none.
DefaultTag(f) ==
    CASE f = "Port" -> "23"
      [] f = "Debug" -> "false"
      [] OTHER -> ""

\* A map in which the first map's entries win.
KeepEntries(m, over) ==
    [k \in DOMAIN m \cup DOMAIN over |-> IF k \in DOMAIN m THEN m[k] ELSE over[k]]

\* for k, v := range over { m[k] = v }
SetEntries(m, over) ==
    [k \in DOMAIN m \cup DOMAIN over |-> IF k \in DOMAIN over THEN over[k] ELSE m[k]]

\* schemeRegex, (?P<scheme>[a-z0-9()]+):[\\/]{2}, on a DSN that starts with
\* scheme://: the scheme where it is written in lower case, no match otherwise.
SchemeGroups(scheme) ==
    IF scheme \in {"sftp"} THEN [k \in {"scheme"} |-> scheme] ELSE EmptyMap

\* The text of the DSN in front of its last "?".
DsnText == "dsn"

\* ParseDSN(dsn, &config), from the match of the compiled pattern on: the
\* config struct and the error it returns.
ParseDSN(dsn, config) ==
    LET groups == SchemeGroups(dsn.scheme)
    IN IF ~dsn.matches
       THEN [config |-> config, err |-> "failed to extract DSN"]
       ELSE IF "scheme" \notin DOMAIN groups
       THEN [config |-> config, err |-> "failed to extract scheme"]
       ELSE IF dsn.queryErr
       THEN [config |-> config, err |-> "parseQueryString"]
       ELSE LET withDsn == SetEntries(dsn.groups,
                                      [k \in {"DSN", "Scheme"} |->
                                          IF k = "DSN" THEN DsnText ELSE groups["scheme"]])
                matches == SetEntries(withDsn, dsn.params)
            IN [config |->
                    [f \in FieldNames |->
                        IF f = "Params"
                        THEN [kind |-> "map", m |-> dsn.params, isNil |-> FALSE]
                        ELSE IF f \in DOMAIN matches
                        THEN setField(config[f], matches[f])
                        ELSE IF DefaultTag(f) # ""
                        THEN setField(config[f], DefaultTag(f))
                        ELSE config[f]],
                err |-> ""]

\* The DSNs explored.
PortTexts == {"", "2222", "x"}
ParamKeys == {"Debug", "Port", "Scheme", "type"}
ParamTexts == {"true", "maybe", "2222"}
ParamMaps == UNION {[keys -> ParamTexts] : keys \in SUBSET ParamKeys}
Dsns ==
    {NoDsn} \cup
    {[matches |-> TRUE, scheme |-> sch,
      groups |-> [k \in {"Username", "Password", "Host", "Port", "BasePath"} |->
                    CASE k = "Username" -> "user"
                      [] k = "Password" -> "password"
                      [] k = "Host" -> "example.com"
                      [] k = "Port" -> port
                      [] OTHER -> "home"],
      params |-> pm, queryErr |-> qe] :
        sch \in {"sftp", "SFTP"}, port \in PortTexts, pm \in ParamMaps, qe \in BOOLEAN}

SpecDsnInit ==
    /\ dsnPc = "call"
    /\ dsnString \in Dsns
    /\ dsnConfig = ZeroConfig
    /\ dsnErr = ""
    /\ StagingIdle
    /\ ConfigInit
    /\ PathIdle
    /\ EvictIdle
    /\ DeriveIdle
    /\ VideoIdle
    /\ SnapIdle
    /\ ServeIdle
    /\ RequestIdle
    /\ HandlerIdle
    /\ CacheIdle

\* The storage driver parses its DSN.
DsnParse ==
    /\ dsnPc = "call"
    /\ LET r == ParseDSN(dsnString, dsnConfig)
       IN /\ dsnConfig' = r.config
          /\ dsnErr' = r.err
    /\ dsnPc' = "returned"
    /\ UNCHANGED dsnString
    /\ UNCHANGED notDsnVars

NextDsn == DsnParse

SpecDsn == SpecDsnInit /\ [][NextDsn]_vars

\* The value a field of the given zero value holds for a text: the text, the
\* number or the truth value it spells.
Spells(zero, val) ==
    CASE zero.kind = "int" -> [kind |-> "int", n |-> ParseInt(val).n]
      [] zero.kind = "bool" -> [kind |-> "bool", b |-> ParseBool(val).b]
      [] OTHER -> [kind |-> "string", s |-> val]

CanSpell(zero, val) ==
    CASE zero.kind = "int" -> ParseInt(val).ok
      [] zero.kind = "bool" -> ParseBool(val).ok
      [] OTHER -> TRUE

\* ParseDSN has returned for a DSN the struct's pattern matches.
ParsedMatching == dsnPc = "returned" /\ dsnString.matches

TextFor(f) ==
    IF f \in DOMAIN dsnString.params THEN dsnString.params[f]
    ELSE IF f = "Scheme" THEN dsnString.scheme
    ELSE IF f = "DSN" THEN DsnText
    ELSE IF f \in DOMAIN dsnString.groups THEN dsnString.groups[f]
    ELSE DefaultTag(f)

C35_NoReadLockAcrossIo ==
    /\ \A r \in Reqs : r \in mu.readers => InLookup(r)
    /\ EvictionLoop \in mu.readers => evictPc \in {"snapshot", "runlock"}
    /\ evictPc \in {"evict", "ticker"} => EvictionLoop \notin mu.readers

\* The eviction goroutine is at DirSize / EvictCache with its snapshot taken
\* while a reload holds the write lock and a request has finished its lookup.
C35_Witness ==
    /\ evictPc = "evict"
    /\ projects # NoLookup
    /\ mu.writer # NoWriter
    /\ \E r \in Reqs : reqPc[r] = "done" /\ reqSeen[r].origin # NoLookup


\* The run of InitializeConfig is between mu.Lock() and mu.Unlock().
InCriticalSection(g) ==
    initPc[g] \in {"origins", "storages", "profiles", "swapOrigins", "swapProfiles", "once", "unlock"}

\* Every run of InitializeConfig that was asked for has returned.
NoInitPending ==
    /\ \A g \in Inits : initPc[g] \in {"idle", "done"}
    /\ \E g \in Inits : initPc[g] = "done"

\* The version of the database rows at the latest request for a run.
LatestAsked ==
    CHOOSE v \in {reloadAsked[g] : g \in Inits} : \A g \in Inits : reloadAsked[g] <= v

\* C36: the runs of InitializeConfig are serialized, and once every run asked
\* for has returned, each published table was read from the database no
\* earlier than the latest request for a run.
C36_ReloadsSerializedLatestWins ==
    /\ \A g, h \in Inits : (g # h /\ InCriticalSection(g)) => ~InCriticalSection(h)
    /\ NoInitPending =>
        /\ Origins.origins >= LatestAsked
        /\ Origins.storages >= LatestAsked
        /\ VideoProfiles.profiles >= LatestAsked

\* A reload asked for after a database write has returned, as has the startup
\* run, and the published tenant table holds the rows as they are now.
C36_Witness ==
    /\ NoInitPending
    /\ \A g \in Inits : initPc[g] = "done"
    /\ \E g \in Inits : g # 0 /\ reloadAsked[g] > 0
    /\ Origins.origins = db


\* The run has stored its map in Origins: its objects are reachable by requests.
Published(g) == initPc[g] \in {"swapProfiles", "once", "unlock", "done"}

\* What the request got from lookupOrigin is an *Origin of a published map.
HoldsOrigin(r) == reqSeen[r].origin.kind = "origins"

\* C37: a reload never writes to the Origin, Project and Storage objects of a
\* map that has been published; the Origin a request holds is an object of a
\* published map, so its storages, prefix and cache directory stay as they
\* were for as long as the request holds it.
C37_PublishedObjectsNotMutated ==
    [][/\ \A g \in Inits : Published(g) => newOrigins'[g] = newOrigins[g]
       /\ \A r \in Reqs :
             (HoldsOrigin(r) /\ reqPc'[r] # "new") =>
                \E g \in Inits : /\ Published(g)
                                 /\ newOrigins[g] = reqSeen[r].origin
                                 /\ newOrigins'[g] = reqSeen'[r].origin]_vars

\* A request holds the Origin of the startup run after a reload has published
\* a map built from later rows.
C37_Witness ==
    \E r \in Reqs :
        /\ HoldsOrigin(r)
        /\ reqPc[r] # "done"
        /\ reqSeen[r].origin = newOrigins[0]
        /\ \E g \in Inits \ {0} : /\ Published(g)
                                  /\ Origins = newOrigins[g]
                                  /\ newOrigins[g].origins # newOrigins[0].origins


\* ------------------------------------------------------- a request beside an eviction pass
\* runEviction calls EvictCache on the tenant's cache directory from its own
\* goroutine while ServeMedia calls stage and stream files of that directory.
\* The lock file StageFile keeps beside the staged path during a fetch ends in
\* ".lock" and is passed over by the walk; it is left out here.
\* A file that is written now is newer than every file that was in the
\* directory before.
NewestFile(f) == \A g \in CacheFiles \ {f} : cacheFiles[g].mod < cacheFiles[f].mod

SpecHandlerInit ==
    /\ cacheFiles \in [CacheFiles -> FileAttrs]
    /\ ~IsLockFile(cacheFiles[StagedFile].name)
    /\ onDisk \in {CacheFiles, CacheFiles \ {StagedFile}}
    /\ StagedFile \notin onDisk => NewestFile(StagedFile)
    /\ maxBytes \in 0..MaxBudget
    /\ entries = <<>>
    /\ total = 0
    /\ next = 0
    /\ removed = 0
    /\ freed = 0
    /\ deleted = {}
    /\ failed = {}
    /\ passPc = "walk"
    /\ handlerPc = "stage"
    /\ fetchedHere = FALSE
    /\ StagingIdle
    /\ ConfigInit
    /\ PathIdle
    /\ DeriveIdle
    /\ VideoIdle
    /\ SnapIdle
    /\ ServeIdle
    /\ RequestIdle
    /\ DsnIdle
    /\ CacheIdle

\* Storage.StageFile: if gpath.IsFileExist(stagedPath) { return stagedPath, nil };
\* otherwise the lock is taken and StorageToDisk creates the file at stagedPath.
HandlerStage ==
    /\ handlerPc = "stage"
    /\ IF StagedFile \in onDisk
       THEN /\ handlerPc' = "open"
            /\ UNCHANGED <<onDisk, fetchedHere>>
       ELSE /\ onDisk' = onDisk \cup {StagedFile}
            /\ handlerPc' = "fetch"
            /\ fetchedHere' = TRUE
    /\ UNCHANGED <<cacheFiles, maxBytes, entries, total, next, removed, freed, deleted, failed, passPc>>
    /\ UNCHANGED besideVars

\* StorageToDisk writes the rest of the object through the descriptor it holds
\* and returns nil; StageFile returns stagedPath.  A file that was unlinked
\* meanwhile is not created again.
HandlerFetched ==
    /\ handlerPc = "fetch"
    /\ handlerPc' = "open"
    /\ UNCHANGED fetchedHere
    /\ UNCHANGED evictVars
    /\ UNCHANGED besideVars

\* Request.ServeFile: file, err := os.Open(filePath); if err != nil { return err }
HandlerOpen ==
    /\ handlerPc = "open"
    /\ handlerPc' = IF StagedFile \in onDisk THEN "stream" ELSE "failed"
    /\ UNCHANGED fetchedHere
    /\ UNCHANGED evictVars
    /\ UNCHANGED besideVars

\* Request.ServeFile: io.Copy(c, file) from the open descriptor
HandlerStream ==
    /\ handlerPc = "stream"
    /\ handlerPc' = "ok"
    /\ UNCHANGED fetchedHere
    /\ UNCHANGED evictVars
    /\ UNCHANGED besideVars

NextHandler ==
    \/ NextEvict
    \/ HandlerStage
    \/ HandlerFetched
    \/ HandlerOpen
    \/ HandlerStream

SpecHandler == SpecHandlerInit /\ [][NextHandler]_vars

\* A fetch of the staged file is in progress.
FetchInProgress == handlerPc = "fetch"

\* The request is between staging its file and the end of the stream.
FileInUse == FetchInProgress \/ handlerPc \in {"open", "stream"}

\* C34: an eviction pass never deletes the staged file of a request that is
\* fetching it or has still to stream it, and no request fails because of a pass.
C34_EvictionSparesFilesInUse ==
    [][/\ (FileInUse /\ StagedFile \in onDisk) => StagedFile \in onDisk'
       /\ handlerPc' # "failed"]_vars


\* ------------------------------------------------------- the files of a cache directory
\* A path is the sequence of the pieces its string is put together from
\* (original name, ToString of the options, ".", format, ...), so that two
\* paths are the same string exactly when they are the same sequence.

\* The keys of MediaTypes that the paths of the model end in.
SupportedExtensions == {"jpg", "webp", "mp4"}

\* GetURLExtension: filepath.Ext(path.Base(...)) without its dot, lower case.
GetURLExtension(p) ==
    IF Len(p) >= 2 /\ p[Len(p) - 1] = "." THEN p[Len(p)]
    ELSE IF p[Len(p)] = ".jpg" THEN "jpg"
    ELSE IF p[Len(p)] = ".mp4" THEN "mp4"
    ELSE "json"

\* strings.TrimSuffix(p, filepath.Ext(p))
TrimExt(p) ==
    IF Len(p) >= 2 /\ p[Len(p) - 1] = "." THEN SubSeq(p, 1, Len(p) - 2)
    ELSE SubSeq(p, 1, Len(p) - 1)

\* filepath.Join(cacheDir, path) for the clean relative paths of the model.
JoinCacheDir(p) == <<IF Head(p) = "a" THEN "cache/a" ELSE "cache/previews/">> \o Tail(p)

\* convertImage: input.ProcessedFilePath
ConvertedPath(stagedAt, o) == TrimExt(stagedAt) \o OptionsToString(o) \o <<".", o.OutputFormat>>

\* generatePreview: previewPath
PreviewPath(originalPath, o) ==
    <<"cache/previews/">> \o generateCacheKey(originalPath, o) \o <<"_", PreviewQuality(o.Preview), ".mp4">>

\* processImage: metadataCacheFile
MetadataPath(stagedAt) == TrimExt(stagedAt) \o <<".metadata.json">>

\* The objects the tenant's storage holds.
StoragePaths == {<<"a", ".jpg">>, <<"a", ".mp4">>}

\* The paths clients ask for: the stored objects, and the names under the cache
\* directory of what the processors write for them.
ArrivalPaths ==
    StoragePaths
    \cup {<<"a">> \o Tail(ConvertedPath(JoinCacheDir(<<"a", ".jpg">>), o)) : o \in ImageOptions}
    \cup {<<"previews/">> \o Tail(PreviewPath(<<"a", ".mp4">>, o)) : o \in PreviewOptions}
    \cup {<<"a">> \o Tail(MetadataPath(JoinCacheDir(<<"a", ".jpg">>)))}

FilesAt(path) == {f \in cacheTree : f.path = path}

SpecCacheInit ==
    /\ cacheTree = {}
    /\ arrival = NoArrival
    /\ arrivalPc = "idle"
    /\ arrivals = 0
    /\ arrivalStaged = <<>>
    /\ cacheHits = {}
    /\ StagingIdle
    /\ ConfigInit
    /\ PathIdle
    /\ EvictIdle
    /\ DeriveIdle
    /\ VideoIdle
    /\ SnapIdle
    /\ ServeIdle
    /\ RequestIdle
    /\ DsnIdle
    /\ HandlerIdle

\* ServeMedia up to StageFile: the extension is looked up in MediaTypes (415
\* when absent) and the options are parsed.
CacheArrive ==
    /\ arrivalPc = "idle"
    /\ arrivals < MaxArrivals
    /\ arrivals' = arrivals + 1
    /\ \E p \in ArrivalPaths :
          IF GetURLExtension(p) \notin SupportedExtensions
          THEN UNCHANGED <<arrival, arrivalPc>>
          ELSE /\ \E o \in (IF GetURLExtension(p) = "mp4" THEN PreviewOptions ELSE ImageOptions) :
                     arrival' = [path |-> p, o |-> o]
               /\ arrivalPc' = "stage"
    /\ UNCHANGED <<cacheTree, arrivalStaged, cacheHits>>
    /\ UNCHANGED notCacheVars

\* Storage.StageFile: if gpath.IsFileExist(arrivalStaged) { return arrivalStaged, nil };
\* otherwise the object is fetched from the storage, which has it or not (404).
CacheStage ==
    /\ arrivalPc = "stage"
    /\ LET at == JoinCacheDir(arrival.path)
       IN IF FilesAt(at) # {}
          THEN /\ cacheHits' = cacheHits \cup {[path |-> arrival.path, file |-> f] : f \in FilesAt(at)}
               /\ arrivalStaged' = at
               /\ arrivalPc' = "process"
               /\ UNCHANGED cacheTree
          ELSE IF arrival.path \in StoragePaths
          THEN /\ cacheTree' = cacheTree \cup {[path |-> at, kind |-> "staged", of |-> arrival.path]}
               /\ arrivalStaged' = at
               /\ arrivalPc' = "process"
               /\ UNCHANGED cacheHits
          ELSE /\ arrivalPc' = "idle"
               /\ arrival' = NoArrival
               /\ UNCHANGED <<cacheTree, arrivalStaged, cacheHits>>
    /\ arrivalPc' # "idle" => UNCHANGED arrival
    /\ UNCHANGED arrivals
    /\ UNCHANGED notCacheVars

\* A file is written at the path unless one is there.
WriteFile(tree, path, kind) ==
    IF \E f \in tree : f.path = path THEN tree
    ELSE tree \cup {[path |-> path, kind |-> kind, of |-> <<>>]}

\* encoder.Processor: processVideo -> generatePreview writes previewPath;
\* processImage writes the metadata file on detail=true and convertImage
\* writes ProcessedFilePath.  The file is then streamed.
CacheProcess ==
    /\ arrivalPc = "process"
    /\ cacheTree' =
          IF GetURLExtension(arrival.path) = "mp4"
          THEN WriteFile(cacheTree, PreviewPath(arrival.path, arrival.o), "derived")
          ELSE WriteFile(IF arrival.o.Detail
                         THEN WriteFile(cacheTree, MetadataPath(arrivalStaged), "metadata")
                         ELSE cacheTree,
                         ConvertedPath(arrivalStaged, arrival.o), "derived")
    /\ arrivalPc' = "idle"
    /\ arrival' = NoArrival
    /\ arrivalStaged' = <<>>
    /\ UNCHANGED <<arrivals, cacheHits>>
    /\ UNCHANGED notCacheVars

NextCache ==
    \/ CacheArrive
    \/ CacheStage
    \/ CacheProcess

SpecCache == SpecCacheInit /\ [][NextCache]_vars

\* C38: every file Storage.StageFile returns as a cache hit was fetched from
\* the tenant's storage for the original_path of the request; no file that a
\* processor wrote is returned as a staged source file.
C38_HitsAreFetchedForSamePath ==
    \A h \in cacheHits : h.file.kind = "staged" /\ h.file.of = h.path

====
